---- MODULE Spec2Model ----
(***************************************************************************)
(* A model of the Ave front end: the lexer (Lexer.lex / scanToken) as a    *)
(* state machine over a source string, and the Pratt parser (AveParser) as *)
(* a state machine over a token list.                                      *)
(***************************************************************************)
EXTENDS Integers, Sequences, FiniteSets, TLC

VARIABLES lexer, lexPc, parser, parsePc, previous, typing

vars == <<lexer, lexPc, parser, parsePc, previous, typing>>

(***************************************************************************)
(* Bounds of the model.                                                    *)
(***************************************************************************)
\* longest source string given to the lexer
MaxLen == 3
\* iterations of the comment loop taken past the end of the source
MaxOverrun == 2

(***************************************************************************)
(* Characters.  A source string is a sequence of one-character strings.    *)
(***************************************************************************)
NL == "\n"
\* what peek() and peekNext() return at the end of the input ('\0')
NUL == "NUL"

Alphabet ==
  { NL, " ", "(", ")", "{", "}", "#", "\"", "0", "x", "e", "a",
    "=", "!", "<", ">", "+", "-", "*", "/", "%" }

Digits == {"0", "1", "2", "3", "4", "5", "6", "7", "8", "9"}
Letters ==
  { "a", "b", "c", "d", "e", "f", "g", "h", "i", "j", "k", "l", "m",
    "n", "o", "p", "q", "r", "s", "t", "u", "v", "w", "x", "y", "z",
    "A", "B", "C", "D", "E", "F", "G", "H", "I", "J", "K", "L", "M",
    "N", "O", "P", "Q", "R", "S", "T", "U", "V", "W", "X", "Y", "Z" }

isDigit(c) == c \in Digits
isAlpha(c) == c \in Letters
isHexDigit(c) == c \in Digits \cup {"a", "b", "c", "d", "e", "f", "A", "B", "C", "D", "E", "F"}
isBinDigit(c) == c \in {"0", "1"}
isValidIdStart(c) == c \in Letters \cup {"_"}
isValidIdChar(c) == c \in Letters \cup Digits \cup {"_"}

\* keywords.ts: the reserved words and their token kinds
keywords ==
  [ k \in { <<"v","a","r">>, <<"l","e","t">>, <<"c","o","n","s","t">>,
            <<"f","u","n","c">>, <<"r","e","c","o","r","d">>, <<"i","f">>,
            <<"e","l","i","f">>, <<"e","l","s","e">>, <<"w","h","i","l","e">>,
            <<"f","o","r">>, <<"r","e","t","u","r","n">>, <<"t","r","u","e">>,
            <<"f","a","l","s","e">>, <<"a","n","d">>, <<"o","r">>, <<"i","s">>,
            <<"n","u","m">>, <<"s","t","r">>, <<"b","o","o","l">>,
            <<"a","n","y">>, <<"o","b","j","e","c","t">> } |->
    CASE k = <<"v","a","r">> -> "VAR"
      [] k = <<"l","e","t">> -> "LET"
      [] k = <<"c","o","n","s","t">> -> "CONST"
      [] k = <<"f","u","n","c">> -> "FUNC"
      [] k = <<"r","e","c","o","r","d">> -> "RECORD"
      [] k = <<"i","f">> -> "IF"
      [] k = <<"e","l","i","f">> -> "ELIF"
      [] k = <<"e","l","s","e">> -> "ELSE"
      [] k = <<"w","h","i","l","e">> -> "WHILE"
      [] k = <<"f","o","r">> -> "FOR"
      [] k = <<"r","e","t","u","r","n">> -> "RETURN"
      [] k = <<"t","r","u","e">> -> "TRUE"
      [] k = <<"f","a","l","s","e">> -> "FALSE"
      [] k = <<"a","n","d">> -> "AND"
      [] k = <<"o","r">> -> "OR"
      [] k = <<"i","s">> -> "IS"
      [] k = <<"n","u","m">> -> "NUMBER"
      [] k = <<"s","t","r">> -> "STRING"
      [] k = <<"b","o","o","l">> -> "BOOL"
      [] k = <<"a","n","y">> -> "ANY"
      [] k = <<"o","b","j","e","c","t">> -> "OBJECT" ]

(***************************************************************************)
(* The lexer object.  Its fields are the fields of class Lexer; `tokens'   *)
(* holds records [type, raw, pos] (the literal payload `value' is not      *)
(* modelled).                                                              *)
(***************************************************************************)
NewLexer(source) ==
  [ sourceCode |-> source, currentLevel |-> 0, start |-> 0, levels |-> <<>>,
    brackets |-> <<>>, line |-> 1, tokens |-> <<>>, current |-> 0,
    hasError |-> FALSE ]

\* String.prototype.substring: indices are clamped to [0, length] and swapped
\* when the first is the larger
Min(a, b) == IF a < b THEN a ELSE b
Max(a, b) == IF a > b THEN a ELSE b
Clamp(i, n) == Max(0, Min(i, n))
substring(s, a, b) ==
  LET lo == Min(Clamp(a, Len(s)), Clamp(b, Len(s)))
      hi == Max(Clamp(a, Len(s)), Clamp(b, Len(s)))
  IN SubSeq(s, lo + 1, hi)

eof(L) == L.current >= Len(L.sourceCode)

next(L) == [L EXCEPT !.current = @ + 1]

peek(L) == IF eof(L) THEN NUL ELSE L.sourceCode[L.current + 1]

peekNext(L) ==
  IF eof(L) \/ L.current + 1 >= Len(L.sourceCode) THEN NUL
  ELSE L.sourceCode[L.current + 2]

error(L) == [L EXCEPT !.hasError = TRUE]

check(L, char) == peek(L) = char

\* match(char) consumes the character when it is the next one
match(L, char) == IF check(L, char) THEN next(L) ELSE L

addToken(L, type) ==
  [L EXCEPT !.tokens =
     Append(@, [ type |-> type,
                 raw |-> substring(L.sourceCode, L.start, L.current),
                 pos |-> [start |-> L.start, end |-> L.current, line |-> L.line] ])]

\* while (!this.eof() && <class>(this.peek())) this.next();
RECURSIVE nextWhile(_, _)
nextWhile(L, class) ==
  IF ~eof(L) /\ peek(L) \in class THEN nextWhile(next(L), class) ELSE L

\* the loop of lexString: up to the closing quote or the end of the input
RECURSIVE stringBody(_, _)
stringBody(L, quote) ==
  IF ~eof(L) /\ ~check(L, quote)
    THEN stringBody(next(IF check(L, NL) THEN [L EXCEPT !.line = @ + 1] ELSE L), quote)
    ELSE L

lexString(L, quote) ==
  LET L1 == stringBody(L, quote)
      L2 == IF eof(L1) THEN error(L1) ELSE L1
  IN addToken(next(L2), "LITERAL_STR")

lexNumber(L) ==
  LET L1 == nextWhile(L, Digits)
      L2 == IF check(L1, ".") /\ isDigit(peekNext(L1))
              THEN nextWhile(next(L1), Digits) ELSE L1
      hasExp == check(L2, "e") \/ check(L2, "E")
      L3 == IF hasExp THEN next(L2) ELSE L2
      L4 == IF hasExp /\ (check(L3, "+") \/ check(L3, "-")) THEN next(L3) ELSE L3
      L5 == IF hasExp THEN nextWhile(L4, Digits) ELSE L4
      L6 == IF ~eof(L5) /\ isAlpha(peek(L5)) THEN error(L5) ELSE L5
  IN IF hasExp /\ ~isDigit(peek(L4))
       THEN error(L4)   \* return this.error(...): no token is added
       ELSE addToken(L6, "LITERAL_NUM")

lexHexNumber(L) ==
  LET L1 == IF ~isHexDigit(peek(L)) THEN error(L) ELSE L
      L2 == nextWhile(L1, {c \in Digits \cup Letters : isHexDigit(c)})
      L3 == IF isValidIdChar(peek(L2)) THEN error(L2) ELSE L2
  IN addToken(L3, "LITERAL_HEX")

lexBinaryNumber(L) ==
  LET L1 == IF ~isBinDigit(peek(L)) THEN error(L) ELSE L
      L2 == nextWhile(L1, {c \in Digits : isBinDigit(c)})
      L3 == IF isValidIdChar(peek(L2)) THEN error(L2) ELSE L2
  IN addToken(L3, "LITERAL_BINARY")

lexIdentifier(L) ==
  LET L1 == nextWhile(L, {c \in Letters \cup Digits \cup {"_"} : isValidIdChar(c)})
      id == substring(L1.sourceCode, L1.start, L1.current)
  IN IF id \in DOMAIN keywords THEN addToken(L1, keywords[id])
     ELSE addToken(L1, "NAME")

\* the token kind scanToken gives to '}'
closeBraceType == "L_BRACE"

\* a variant of newlineToken that closes a block on every '\n'
newlineTokenAsDedent(L) == addToken(L, "DEDENT")

\* the token scanToken adds for a '\n'
newlineToken(L) == addToken(L, "NEWLINE")

\* one or two character operators: the kinds chosen on the character after c
operatorToken(L, c) ==
  CASE c = "+" ->
         IF check(L, "=") THEN addToken(next(L), "PLUS_EQ")
         ELSE IF check(L, "+") THEN addToken(next(L), "PLUS_PLUS")
         ELSE addToken(L, "PLUS")
    [] c = "-" ->
         IF check(L, "=") THEN addToken(next(L), "MINUS_EQ")
         ELSE IF check(L, "-") THEN addToken(next(L), "MINUS_MINUS")
         ELSE IF check(L, ">") THEN addToken(next(L), "ARROW")
         ELSE addToken(L, "MINUS")
    [] c = "*" ->
         IF check(L, "=") THEN addToken(next(L), "STAR_EQ")
         ELSE IF check(L, "*") THEN addToken(next(L), "POW")
         ELSE addToken(L, "STAR")
    [] c = "/" ->
         IF check(L, "=") THEN addToken(next(L), "DIV_EQ")
         ELSE IF check(L, "/") THEN addToken(next(L), "FLOOR_DIV")
         ELSE addToken(L, "DIV")
    [] c = ">" ->
         IF check(L, "=") THEN addToken(next(L), "GREATER_EQ")
         ELSE addToken(L, "GREATER")
    [] c = "<" ->
         IF check(L, "=") THEN addToken(next(L), "LESS_EQ")
         ELSE addToken(L, "LESS")

\* scanToken, except the loop of the '#' case: L0 is the lexer before
\* `const c = this.next()'
scanToken(L0) ==
  LET c == peek(L0)
      L == next(L0)
  IN CASE c = ":" -> addToken(L, "COLON")
       [] c = ";" -> addToken(L, "SEMI_COLON")
       [] c = "." -> addToken(L, "DOT")
       [] c = "," -> addToken(L, "COMMA")
       [] c = "|" -> addToken(L, "PIPE")
       [] c = "&" -> addToken(L, "AMP")
       [] c = "^" -> addToken(L, "XOR")
       [] c = "=" -> addToken(L, "EQ")
       [] c = "(" -> [addToken(L, "L_PAREN") EXCEPT !.brackets = Append(@, c)]
       [] c = ")" -> addToken(L, "R_PAREN")
       [] c = "[" -> [addToken(L, "L_SQ_BRACE") EXCEPT !.brackets = Append(@, c)]
       [] c = "]" -> addToken(L, "R_SQ_BRACE")
       [] c = "{" -> addToken(L, "L_BRACE")
       [] c = "}" -> addToken(L, closeBraceType)
       [] c \in {"+", "-", "*", "/", ">", "<"} -> operatorToken(L, c)
       [] c \in {"\"", "'"} -> lexString(L, c)
       [] c = "#" -> L
       [] c = NL -> newlineToken([L EXCEPT !.line = @ + 1])
       [] OTHER ->
            IF isValidIdStart(c) THEN lexIdentifier(L)
            ELSE IF isDigit(c) THEN
              IF c = "0" /\ check(L, "b") THEN lexBinaryNumber(next(L))
              ELSE IF c = "0" /\ check(L, "x") THEN lexHexNumber(next(L))
              ELSE lexNumber(L)
            ELSE L

(***************************************************************************)
(* The parser.  Class Parser (parser.ts: the token cursor, the parselet     *)
(* tables and parseExpression), the enum Precedence and the parselets of   *)
(* parselets/ are written from the specification; the registrations and    *)
(* the statement grammar are AveParser's.  A token is [type, raw]; the     *)
(* parser object P holds the token list, the cursor, the hasError flag of  *)
(* the AST root, the statements of the root body, the scope stacks (each   *)
(* entry is the `declarations' list of the Body pushed) and the counter    *)
(* Type.nextID.  P.hang is set when a loop of the parser repeats without   *)
(* consuming a token, so that it cannot end.  Every parsing operator       *)
(* returns [node, P].                                                     *)
(***************************************************************************)
Precedence ==
  [ NONE |-> 0, ASSIGN |-> 1, LOGIC_OR |-> 2, LOGIC_AND |-> 3, BIT_OR |-> 4,
    BIT_XOR |-> 5, BIT_AND |-> 6, EQUALITY |-> 7, COMPARISON |-> 8, ADD |-> 9,
    MULT |-> 10, POW |-> 11, PRE_UNARY |-> 12, POST_UNARY |-> 13, CALL |-> 14,
    COMP_MEM_ACCESS |-> 15, MEM_ACCESS |-> 16, GROUPING |-> 17, MAX |-> 18 ]

\* the built-in types, in the order types.ts creates them (ids 0 to 6)
t_any ==
  [kind |-> "Type", id |-> 0, tag |-> "any", unresolved |-> FALSE]
t_object ==
  [kind |-> "Type", id |-> 1, tag |-> "object", unresolved |-> FALSE]
t_string ==
  [kind |-> "Type", id |-> 2, tag |-> "str", unresolved |-> FALSE]
t_number ==
  [kind |-> "Type", id |-> 3, tag |-> "num", unresolved |-> FALSE]
t_bool ==
  [kind |-> "Type", id |-> 4, tag |-> "bool", unresolved |-> FALSE]
t_error ==
  [kind |-> "Type", id |-> 5, tag |-> "<%error%>", unresolved |-> FALSE]
t_infer ==
  [kind |-> "Type", id |-> 6, tag |-> "<%infer%>", unresolved |-> FALSE]

\* Type.nextID once types.ts has created the built-in types
FirstFreeTypeID == 7

NewParser(tokens) ==
  [ tokens |-> tokens, current |-> 0, hasError |-> FALSE, statements |-> <<>>,
    blockScopestack |-> << <<>> >>, functionScopestack |-> <<>>,
    nextID |-> FirstFreeTypeID, hang |-> FALSE ]

IdleParser == NewParser(<<[type |-> "EOF", raw |-> ""]>>)

PPeek(P) == P.tokens[P.current + 1]
PPrev(P) == P.tokens[P.current]
PEof(P) == PPeek(P).type = "EOF"
\* next() does not move past the EOF token, the last of the list
PNext(P) == IF PEof(P) THEN P ELSE [P EXCEPT !.current = @ + 1]
PCheck(P, type) == PPeek(P).type = type
PCheckNext(P, type) ==
  P.current + 2 <= Len(P.tokens) /\ P.tokens[P.current + 2].type = type
PMatches(P, types) == PPeek(P).type \in types
\* match(...types) and consume(...types): take the token when it is one of types
PMatch(P, types) == IF PMatches(P, types) THEN PNext(P) ELSE P
PError(P) == [P EXCEPT !.hasError = TRUE]
\* expect(type, message): take the token, or record the error
PExpect(P, type) == IF PCheck(P, type) THEN PNext(P) ELSE PError(P)

\* the scope stacks
pushScope(P) == [P EXCEPT !.blockScopestack = Append(@, <<>>)]
popScope(P) == [P EXCEPT !.blockScopestack = SubSeq(@, 1, Len(@) - 1)]
topDeclarations(P) == P.blockScopestack[Len(P.blockScopestack)]
\* currentBlockScope().declarations.push(decl)
pushDeclaration(P, decl) ==
  [P EXCEPT !.blockScopestack[Len(P.blockScopestack)] = Append(@, decl)]

\* Map.set: a later registration of a token kind replaces the earlier one
RECURSIVE registerAll(_, _)
registerAll(table, regs) ==
  IF regs = <<>> THEN table
  ELSE registerAll([t \in DOMAIN table \cup {regs[1].type} |->
                      IF t = regs[1].type THEN regs[1] ELSE table[t]],
                   Tail(regs))

EmptyTable == [t \in {} |-> <<>>]

\* the associativity Parser.infix gives an operator registered without one
infixDefaultRightAssoc == FALSE

\* the associativity of the registration this.infix(TokenType.POW, Precedence.POW)
powRightAssoc == infixDefaultRightAssoc

prefixReg(type, prec, parselet) ==
  [type |-> type, precedence |-> prec, parselet |-> parselet]
infixReg(type, prec, right, parselet) ==
  [type |-> type, precedence |-> prec, rightAssoc |-> right, parselet |-> parselet]

\* the token kind AveParser registers for computed member access "a[b]"
computedMemberAccessToken == "L_BRACE"

\* this.prefix(...) in the order of AveParser's constructor
prefixParselets ==
  registerAll(EmptyTable,
    << prefixReg("LITERAL_NUM", Precedence.NONE, "Literal"),
       prefixReg("LITERAL_STR", Precedence.NONE, "Literal"),
       prefixReg("TRUE", Precedence.NONE, "Literal"),
       prefixReg("FALSE", Precedence.NONE, "Literal"),
       prefixReg("NAME", Precedence.NONE, "Identifier"),
       prefixReg("FUNC", Precedence.NONE, "funcExpr"),
       prefixReg("INDENT", Precedence.NONE, "ObjectParser"),
       prefixReg("L_BRACE", Precedence.NONE, "BraceObject"),
       prefixReg("L_SQ_BRACE", Precedence.NONE, "ArrayParser"),
       prefixReg("MINUS", Precedence.PRE_UNARY, "PrefixUnary"),
       prefixReg("BANG", Precedence.PRE_UNARY, "PrefixUnary"),
       prefixReg("PLUS", Precedence.PRE_UNARY, "PrefixUnary"),
       prefixReg("PLUS_PLUS", Precedence.PRE_UNARY, "PrefixUnary"),
       prefixReg("MINUS_MINUS", Precedence.PRE_UNARY, "PrefixUnary"),
       prefixReg("L_PAREN", Precedence.GROUPING, "Group") >>)

\* this.infix(...) in the order of AveParser's constructor
infixParselets ==
  registerAll(EmptyTable,
    << infixReg("COLON", Precedence.MAX, FALSE, "InfixObjectParser"),
       infixReg("PLUS", Precedence.ADD, infixDefaultRightAssoc, "Binary"),
       infixReg("MINUS", Precedence.ADD, infixDefaultRightAssoc, "Binary"),
       infixReg("STAR", Precedence.MULT, infixDefaultRightAssoc, "Binary"),
       infixReg("DIV", Precedence.MULT, infixDefaultRightAssoc, "Binary"),
       infixReg("MOD", Precedence.MULT, infixDefaultRightAssoc, "Binary"),
       infixReg("POW", Precedence.POW, powRightAssoc, "Binary"),
       infixReg("GREATER", Precedence.COMPARISON, infixDefaultRightAssoc, "Binary"),
       infixReg("GREATER_EQ", Precedence.COMPARISON, infixDefaultRightAssoc, "Binary"),
       infixReg("LESS", Precedence.COMPARISON, infixDefaultRightAssoc, "Binary"),
       infixReg("LESS_EQ", Precedence.COMPARISON, infixDefaultRightAssoc, "Binary"),
       infixReg("GREATER", Precedence.COMPARISON, infixDefaultRightAssoc, "Binary"),
       infixReg("EQ_EQ", Precedence.EQUALITY, infixDefaultRightAssoc, "Binary"),
       infixReg("IS", Precedence.EQUALITY, infixDefaultRightAssoc, "Binary"),
       infixReg("BANG_EQ", Precedence.EQUALITY, infixDefaultRightAssoc, "Binary"),
       infixReg("XOR", Precedence.BIT_XOR, infixDefaultRightAssoc, "Binary"),
       infixReg("PIPE", Precedence.BIT_OR, infixDefaultRightAssoc, "Binary"),
       infixReg("AMP", Precedence.BIT_AND, infixDefaultRightAssoc, "Binary"),
       infixReg("AND", Precedence.LOGIC_AND, infixDefaultRightAssoc, "Binary"),
       infixReg("OR", Precedence.LOGIC_OR, infixDefaultRightAssoc, "Binary"),
       infixReg("DOT", Precedence.MEM_ACCESS, FALSE, "MemberExprParser"),
       infixReg(computedMemberAccessToken, Precedence.COMP_MEM_ACCESS, FALSE,
                "MemberExprParser"),
       infixReg("EQ", Precedence.ASSIGN, TRUE, "AssignmentParser"),
       infixReg("DIV_EQ", Precedence.ASSIGN, TRUE, "AssignmentParser"),
       infixReg("MINUS_EQ", Precedence.ASSIGN, TRUE, "AssignmentParser"),
       infixReg("STAR_EQ", Precedence.ASSIGN, TRUE, "AssignmentParser"),
       infixReg("MOD_EQ", Precedence.ASSIGN, TRUE, "AssignmentParser"),
       infixReg("PLUS_EQ", Precedence.ASSIGN, TRUE, "AssignmentParser"),
       infixReg("POW_EQ", Precedence.ASSIGN, TRUE, "AssignmentParser"),
       infixReg("L_PAREN", Precedence.CALL, FALSE, "callParser") >>)

\* this.postfix(...)
postfixParselets ==
  registerAll(EmptyTable,
    << prefixReg("PLUS_PLUS", Precedence.POST_UNARY, "PostfixUnary"),
       prefixReg("MINUS_MINUS", Precedence.POST_UNARY, "PostfixUnary") >>)

\* AST nodes
ErrorNode == [kind |-> "Error"]
Literal(token) == [kind |-> "Literal", value |-> token.raw]
Identifier(token) == [kind |-> "Identifier", name |-> token.raw]
BinaryExpr(left, op, right) ==
  [kind |-> "BinaryExpr", operator |-> op.type, left |-> left, right |-> right]
PrefixUnaryExpr(op, operand) ==
  [kind |-> "PrefixUnaryExpr", operator |-> op.type, operand |-> operand]
PostfixUnaryExpr(op, operand) ==
  [kind |-> "PostfixUnaryExpr", operator |-> op.type, operand |-> operand]
AssignmentExpr(left, op, right) ==
  [kind |-> "AssignmentExpr", operator |-> op.type, left |-> left, right |-> right]
GroupExpr(expr) == [kind |-> "GroupingExpr", expr |-> expr]
CallExpr(callee, args) == [kind |-> "CallExpr", callee |-> callee, args |-> args]
MemberAccessExpr(object, property, isIndexed) ==
  [kind |-> "MemberAccessExpr", object |-> object, property |-> property,
   isIndexed |-> isIndexed]
ArrayExpr(elements) == [kind |-> "ArrayExpr", elements |-> elements]
ObjectExpr(pairs) == [kind |-> "ObjectExpr", pairs |-> pairs]
ExprStmt(expr) == [kind |-> "ExprStmt", expr |-> expr]
Body(statements, declarations) ==
  [kind |-> "Body", statements |-> statements, declarations |-> declarations]
TypeInfo(token, type) == [kind |-> "TypeInfo", token |-> token.raw, type |-> type]
HoistedVarDeclaration(name, type) ==
  [kind |-> "HoistedVarDeclaration", name |-> name, type |-> type]
FuncDeclaration(func) == [kind |-> "FuncDeclaration", name |-> func.name]

Result(node, P) == [node |-> node, P |-> P]

\* whether the loop of parseExpression takes the infix operator `entry' at
\* the minimum precedence prec
takesInfix(entry, prec) ==
  entry.precedence > prec \/ (entry.rightAssoc /\ entry.precedence >= prec)

isAssignmentTarget(node) == node.kind \in {"Identifier", "MemberAccessExpr"}

\* what expect() hands back when the token is not there, and prev() in front
\* of the first token
NoToken == [type |-> "undefined", raw |-> "undefined"]
PPrevOrNone(P) == IF P.current = 0 THEN NoToken ELSE PPrev(P)
\* the token expect(type, ...) returns
expected(P, type) == IF PCheck(P, type) THEN PPeek(P) ELSE NoToken

Null == [kind |-> "null"]

\* new Type(tag): the id is Type.nextID++
newType(P, kind, tag, unresolved, parts) ==
  Result([kind |-> kind, id |-> P.nextID, tag |-> tag, unresolved |-> unresolved,
          parts |-> parts],
         [P EXCEPT !.nextID = @ + 1])

\* Typing.fromToken
fromToken(P, tok) ==
  CASE tok.type = "STRING" -> Result(t_string, P)
    [] tok.type = "BOOL" -> Result(t_bool, P)
    [] tok.type = "NUMBER" -> Result(t_number, P)
    [] tok.type = "OBJECT" -> Result(t_object, P)
    [] tok.type = "ANY" -> Result(t_any, P)
    [] OTHER -> newType(P, "Type", tok.raw, TRUE, <<>>)

\* Parser.isValidType: a primitive type name or a NAME
isValidType(token) ==
  token.type \in {"STRING", "BOOL", "NUMBER", "OBJECT", "ANY", "NAME"}

getDeclarationKind(tok) ==
  CASE tok.type = "VAR" -> "FunctionScope"
    [] tok.type = "CONST" -> "Constant"
    [] OTHER -> "BlockScope"

RECURSIVE call(_, _, _)

\* Parser.parseExpression(precedence)
parseExpression(P, prec) ==
  LET t == PPeek(P)
  IN IF t.type \notin DOMAIN prefixParselets
       THEN Result(ErrorNode, PError(PNext(P)))
       ELSE LET l == call("prefixParse", PNext(P), <<t>>)
            IN call("infixLoop", l.P, <<l.node, prec>>)

\* the loop of parseExpression over the infix and postfix operators
infixLoop(P, left, prec) ==
  LET t == PPeek(P)
  IN IF t.type \in DOMAIN infixParselets /\ takesInfix(infixParselets[t.type], prec)
       THEN LET r == call("infixParse", PNext(P), <<left, t>>)
            IN call("infixLoop", r.P, <<r.node, prec>>)
     ELSE IF t.type \in DOMAIN postfixParselets
               /\ postfixParselets[t.type].precedence > prec
       THEN call("infixLoop", PNext(P), <<PostfixUnaryExpr(t, left), prec>>)
     ELSE Result(left, P)

\* the prefix parselet of token t, which has been consumed
prefixParse(P, t) ==
  LET parselet == prefixParselets[t.type].parselet
  IN CASE parselet = "Literal" -> Result(Literal(t), P)
       [] parselet = "Identifier" -> Result(Identifier(t), P)
       [] parselet = "PrefixUnary" ->
            LET r == call("parseExpression",
                          P,
                          <<prefixParselets[t.type].precedence>>)
            IN Result(PrefixUnaryExpr(t, r.node), r.P)
       [] parselet = "Group" ->
            LET r == call("parseExpression", P, <<Precedence.NONE>>)
            IN Result(GroupExpr(r.node), PExpect(r.P, "R_PAREN"))
       [] parselet = "ArrayParser" ->
            LET r == call("exprList", P, <<<<>>, "R_SQ_BRACE">>)
            IN Result(ArrayExpr(r.node), PExpect(r.P, "R_SQ_BRACE"))
       [] parselet = "ObjectParser" -> call("ObjectParser", P, <<t>>)
       [] parselet = "BraceObject" ->
            IF PCheck(P, "INDENT")
              THEN LET r == call("ObjectParser", PNext(P), <<PPeek(P)>>)
                   IN Result(r.node, PExpect(r.P, "R_BRACE"))
              ELSE call("ObjectParser", P, <<t>>)
       [] parselet = "funcExpr" -> call("funcExpr", P, <<>>)

\* the infix parselet of token t, which has been consumed
infixParse(P, left, t) ==
  LET entry == infixParselets[t.type]
  IN CASE entry.parselet = "Binary" ->
            LET r == call("parseExpression", P, <<entry.precedence>>)
            IN Result(BinaryExpr(left, t, r.node), r.P)
       [] entry.parselet = "AssignmentParser" ->
            LET r == call("parseExpression",
                          IF isAssignmentTarget(left) THEN P ELSE PError(P),
                          <<Precedence.ASSIGN>>)
            IN Result(AssignmentExpr(left, t, r.node), r.P)
       [] entry.parselet = "MemberExprParser" ->
            IF t.type = "DOT"
              THEN Result(MemberAccessExpr(left, Identifier(expected(P, "NAME")), FALSE),
                          PExpect(P, "NAME"))
              ELSE LET r == call("parseExpression", P, <<Precedence.NONE>>)
                   IN Result(MemberAccessExpr(left, r.node, TRUE),
                             PExpect(r.P, "R_SQ_BRACE"))
       [] entry.parselet = "callParser" ->
            LET r == call("exprList", P, <<<<>>, "R_PAREN">>)
            IN Result(CallExpr(left, r.node), PExpect(r.P, "R_PAREN"))
       [] entry.parselet = "InfixObjectParser" ->
            LET r == call("parseExpression",
                          IF left.kind = "Identifier" THEN P ELSE PError(P),
                          <<Precedence.NONE>>)
            IN Result(ObjectExpr(<< <<left, r.node>> >>), r.P)

\* comma separated expressions up to (not including) the closing token
exprList(P, elements, close) ==
  IF PCheck(P, close) \/ PEof(P) THEN Result(elements, P)
  ELSE LET r == call("parseExpression", P, <<Precedence.NONE>>)
       IN IF PCheck(r.P, "COMMA")
            THEN call("exprList",
                      PNext(r.P),
                      <<Append(elements, r.node), close>>)
            ELSE Result(Append(elements, r.node), r.P)

\* the pairs `name : expression' of an object, separated by ',' or NEWLINE
objectPairs(P, pairs, close) ==
  IF PCheck(P, close) \/ PEof(P) THEN Result(pairs, P)
  ELSE IF ~PCheck(P, "NAME") THEN Result(pairs, PError(P))
  ELSE LET r == call("parseExpression",
                     PExpect(PNext(P), "COLON"),
                     <<Precedence.NONE>>)
       IN call("objectPairs",
               PMatch(r.P, {"COMMA", "NEWLINE"}), <<Append(pairs,
               <<Identifier(PPeek(P)), r.node>>), close>>)

\* ObjectParser: tok is the INDENT or the '{' that opens the object
ObjectParser(P, tok) ==
  LET close == IF tok.type = "INDENT" THEN "DEDENT" ELSE "R_BRACE"
      r == call("objectPairs", P, <<<<>>, close>>)
  IN Result(ObjectExpr(r.node), IF r.P.hasError /\ ~P.hasError THEN r.P
                                ELSE PExpect(r.P, close))

\* AveParser.statement
statement(P) ==
  IF PCheck(P, "IF") THEN call("ifStmt", P, <<>>)
  ELSE IF PCheck(P, "FOR") THEN call("forStmt", P, <<>>)
  ELSE IF PCheck(P, "RETURN") THEN call("returnStmt", P, <<>>)
  ELSE call("declaration", P, <<>>)

\* AveParser.declaration
declaration(P) ==
  IF PMatches(P, {"VAR", "CONST", "LET"}) THEN call("varDeclaration",
                                                    PNext(P),
                                                    <<PPeek(P)>>)
  ELSE IF PCheck(P, "NAME") /\ PCheckNext(P, "COLON") THEN call("sugarDeclaration",
                                                                P,
                                                                <<>>)
  ELSE IF PCheck(P, "FUNC") THEN call("funcDecl", PNext(P), <<>>)
  ELSE IF PCheck(P, "RECORD") THEN call("recordDecl", PNext(P), <<>>)
  ELSE LET r == call("parseExpression", P, <<Precedence.NONE>>)
       IN Result(ExprStmt(r.node), PMatch(r.P, {"SEMI_COLON"}))

VarDeclaration(declarationKind, declarators) ==
  [kind |-> "VarDeclaration", declarationKind |-> declarationKind,
   declarators |-> declarators]

sugarDeclaration(P) ==
  LET r == call("varDeclarator", P, <<>>)
  IN Result(VarDeclaration("BlockScope", <<r.node>>), PMatch(r.P, {"SEMI_COLON"}))

\* while (this.check(NAME)) { push(varDeclarator()); consume(COMMA) }
varDeclarators(P, declarators) ==
  IF PCheck(P, "NAME")
    THEN LET r == call("varDeclarator", P, <<>>)
         IN call("varDeclarators",
                 PMatch(r.P, {"COMMA"}),
                 <<Append(declarators, r.node)>>)
    ELSE Result(declarators, P)

varDeclaration(P, tok) ==
  IF PCheck(P, "L_PAREN")
    THEN LET r == call("varDeclarators", PNext(P), <<<<>>>>)
         IN Result(VarDeclaration(getDeclarationKind(tok), r.node),
                   PMatch(PExpect(r.P, "R_PAREN"), {"SEMI_COLON"}))
    ELSE LET r == call("varDeclarator", P, <<>>)
         IN Result(VarDeclaration(getDeclarationKind(tok), <<r.node>>),
                   PMatch(r.P, {"SEMI_COLON"}))

varDeclarator(P) ==
  LET varName == expected(P, "NAME")
      P1 == PExpect(P, "NAME")
      annotated == PCheck(P1, "COLON") /\ ~PCheckNext(P1, "EQ")
      ty == IF annotated THEN call("parseType", PNext(P1), <<>>)
            ELSE Result(TypeInfo(PPrevOrNone(P1), t_infer), PMatch(P1, {"COLON"}))
      val == IF PCheck(ty.P, "EQ") THEN call("parseExpression",
                                             PNext(ty.P),
                                             <<Precedence.NONE>>)
             ELSE Result(Null, ty.P)
  IN Result([kind |-> "VarDeclarator", name |-> varName.raw, value |-> val.node,
             typeInfo |-> ty.node], val.P)

\* while (!this.eof() && !this.match(DEDENT)) statements.push(this.statement())
blockStatements(P, statements) ==
  IF P.hang \/ PEof(P) THEN Result(statements, P)
  ELSE IF PCheck(P, "DEDENT") THEN Result(statements, PNext(P))
  ELSE LET r == call("statement", P, <<>>)
       IN call("blockStatements", r.P, <<Append(statements, r.node)>>)

\* ifStmt without the pop that follows the statements of the else branch
ifStmtKeepsElseScope(P) ==
  LET cond == call("parseExpression", PNext(P), <<Precedence.NONE>>)
      P1 == PExpect(PMatch(cond.P, {"COLON"}), "INDENT")
      thenStmts == call("blockStatements", pushScope(P1), <<<<>>>>)
      then == Body(thenStmts.node, topDeclarations(thenStmts.P))
      P2 == popScope(thenStmts.P)
      node(else, Q) ==
        Result([kind |-> "IfStmt", condition |-> cond.node, thenBody |-> then,
                elseBody |-> else], Q)
  IN IF PCheck(P2, "ELIF")
       THEN LET elif == call("ifStmt", pushScope(P2), <<>>)
            IN node(Body(<<elif.node>>, topDeclarations(elif.P)), popScope(elif.P))
     ELSE IF PCheck(P2, "ELSE")
       THEN LET P3 == PExpect(PMatch(pushScope(PNext(P2)), {"COLON"}), "INDENT")
                elseStmts == call("blockStatements", P3, <<<<>>>>)
            IN node(Body(elseStmts.node, topDeclarations(elseStmts.P)),
                    elseStmts.P)
     ELSE node(Null, P2)

ifStmt(P) ==
  LET cond == call("parseExpression", PNext(P), <<Precedence.NONE>>)
      P1 == PExpect(PMatch(cond.P, {"COLON"}), "INDENT")
      thenStmts == call("blockStatements", pushScope(P1), <<<<>>>>)
      then == Body(thenStmts.node, topDeclarations(thenStmts.P))
      P2 == popScope(thenStmts.P)
      node(else, Q) ==
        Result([kind |-> "IfStmt", condition |-> cond.node, thenBody |-> then,
                elseBody |-> else], Q)
  IN IF PCheck(P2, "ELIF")
       THEN LET elif == call("ifStmt", pushScope(P2), <<>>)
            IN node(Body(<<elif.node>>, topDeclarations(elif.P)), popScope(elif.P))
     ELSE IF PCheck(P2, "ELSE")
       THEN LET P3 == PExpect(PMatch(pushScope(PNext(P2)), {"COLON"}), "INDENT")
                elseStmts == call("blockStatements", P3, <<<<>>>>)
            IN node(Body(elseStmts.node, topDeclarations(elseStmts.P)),
                    popScope(elseStmts.P))
     ELSE node(Null, P2)

\* while (!this.match(DEDENT)) forstmt.body.statements.push(this.statement())
forBody(P, statements) ==
  IF P.hang THEN Result(statements, P)
  ELSE IF PCheck(P, "DEDENT") THEN Result(statements, PNext(P))
  ELSE LET r == call("statement", P, <<>>)
       IN IF r.P.current = P.current
            THEN Result(Append(statements, r.node), [r.P EXCEPT !.hang = TRUE])
            ELSE call("forBody", r.P, <<Append(statements, r.node)>>)

forStmt(P) ==
  LET i == Identifier(expected(PNext(P), "NAME"))
      start == call("parseExpression",
                    PExpect(PExpect(PNext(P), "NAME"), "EQ"),
                    <<Precedence.NONE>>)
      stop == call("parseExpression",
                   PExpect(start.P, "COMMA"),
                   <<Precedence.NONE>>)
      step == IF PCheck(stop.P, "COMMA")
                THEN call("parseExpression", PNext(stop.P), <<Precedence.NONE>>)
                ELSE Result(Null, stop.P)
      P1 == PExpect(PMatch(step.P, {"COLON"}), "INDENT")
      P2 == pushDeclaration(pushScope(P1), HoistedVarDeclaration(i.name, t_number))
      stmts == call("forBody", P2, <<<<>>>>)
      declarations == Append(topDeclarations(stmts.P),
                             HoistedVarDeclaration(i.name, t_number))
  IN Result([kind |-> "ForStmt", i |-> i, start |-> start.node, stop |-> stop.node,
             step |-> step.node, body |-> Body(stmts.node, declarations)],
            popScope(stmts.P))

\* the part funcExpr and funcDecl share: parameters, return type
funcExpr(P) ==
  LET params == call("parseParams", P, <<>>)
      ret == IF PCheck(params.P, "COLON") THEN call("parseType",
                                                    PNext(params.P),
                                                    <<>>)
             ELSE Result(TypeInfo(PPeek(P), t_infer), params.P)
      func == [kind |-> "FunctionExpr", name |-> "", params |-> params.node,
               returnTypeInfo |-> ret.node, body |-> Body(<<>>, <<>>),
               isArrow |-> FALSE]
  IN call("parseFunctionBody", ret.P, <<func, FALSE>>)

funcDecl(P) ==
  LET name == expected(P, "NAME")
      P1 == PExpect(P, "NAME")
      params == call("parseParams", P1, <<>>)
      ret == IF PCheck(params.P, "COLON") THEN call("parseType",
                                                    PNext(params.P),
                                                    <<>>)
             ELSE Result(TypeInfo(PPeek(P1), t_infer), params.P)
      func == [kind |-> "FunctionDecl", name |-> name.raw, params |-> params.node,
               returnTypeInfo |-> ret.node, body |-> Body(<<>>, <<>>),
               isArrow |-> FALSE]
  IN call("parseFunctionBody", PMatch(ret.P, {"COLON"}), <<func, FALSE>>)

\* parseFunctionBody with the declaration pushed before the function's scope
\* is popped
parseFunctionBodyHoistsInside(P, func, isArrow) ==
  LET stmts == call("blockStatements", pushScope(PExpect(P, "INDENT")), <<<<>>>>)
      P3 == IF func.kind = "FunctionDecl"
              THEN pushDeclaration(stmts.P, FuncDeclaration(func))
              ELSE stmts.P
  IN Result([func EXCEPT !.body = Body(stmts.node, topDeclarations(P3))],
            popScope(P3))

parseFunctionBody(P, func, isArrow) ==
  LET P1 == PExpect(P, "INDENT")
      P2 == pushScope(IF isArrow
                        THEN [P1 EXCEPT !.functionScopestack = Append(@, <<>>)]
                        ELSE P1)
      stmts == call("blockStatements", P2, <<<<>>>>)
      body == Body(stmts.node, topDeclarations(stmts.P))
      P3 == popScope(stmts.P)
      P4 == IF isArrow
              THEN [P3 EXCEPT !.functionScopestack = SubSeq(@, 1, Len(@) - 1)]
              ELSE P3
      done == [func EXCEPT !.body = body]
  IN Result(done, IF func.kind = "FunctionDecl"
                    THEN pushDeclaration(P4, FuncDeclaration(done))
                    ELSE P4)

\* AveParser.parseParams
parseParams(P) == call("paramList", PExpect(P, "L_PAREN"), <<<<>>>>)

paramList(P, params) ==
  IF PCheck(P, "R_PAREN") THEN Result(params, PNext(P))
  ELSE LET r == call("parseParam", P, <<>>)
       IN IF PCheck(r.P, "COMMA")
            THEN call("paramList", PNext(r.P), <<Append(params, r.node)>>)
            ELSE Result(Append(params, r.node), PExpect(r.P, "R_PAREN"))

parseParam(P) ==
  LET token == expected(P, "NAME")
      P1 == PExpect(P, "NAME")
      ty == IF PCheck(P1, "COLON") THEN call("parseType", PNext(P1), <<>>)
            ELSE Result(TypeInfo(PPrevOrNone(P1), t_any), P1)
      def == IF PCheck(ty.P, "EQ") THEN call("parseExpression",
                                             PNext(ty.P),
                                             <<Precedence.NONE>>)
             ELSE Result(Null, ty.P)
  IN Result([name |-> token.raw, typeInfo |-> ty.node, required |-> TRUE,
             rest |-> FALSE, defaultValue |-> def.node], def.P)

returnStmt(P) ==
  LET P1 == PNext(P)
  IN IF PEof(P1) THEN Result([kind |-> "ReturnStmt", expr |-> Null], P1)
     ELSE IF PCheck(P1, "SEMI_COLON")
       THEN Result([kind |-> "ReturnStmt", expr |-> Null], PNext(P1))
     ELSE IF PCheck(P1, "NEWLINE") \/ PCheck(P1, "DEDENT")
       THEN Result([kind |-> "ReturnStmt", expr |-> Null], P1)
     ELSE LET r == call("parseExpression", P1, <<Precedence.NONE>>)
          IN Result([kind |-> "ReturnStmt", expr |-> r.node],
                    PMatch(r.P, {"SEMI_COLON"}))

\* while (!this.match(DEDENT)) { expect(NAME); expect(COLON); parseType() }
recordProperties(P, properties) ==
  IF P.hang THEN Result(properties, P)
  ELSE IF PCheck(P, "DEDENT") THEN Result(properties, PNext(P))
  ELSE LET name == expected(P, "NAME")
           ty == call("parseType", PExpect(PExpect(P, "NAME"), "COLON"), <<>>)
           added == Append(properties, <<name.raw, ty.node>>)
       IN IF ty.P.current = P.current
            THEN Result(added, [ty.P EXCEPT !.hang = TRUE])
            ELSE call("recordProperties", ty.P, <<added>>)

recordDecl(P) ==
  LET name == PPeek(P)
      P1 == PNext(P)
      isGeneric == PCheck(P1, "LESS")
      typeArgs == IF isGeneric THEN call("parseGenericParams",
                                         PNext(P1),
                                         <<<<>>>>)
                  ELSE Result(<<>>, P1)
      P2 == PExpect(PMatch(typeArgs.P, {"COLON"}), "INDENT")
      props == call("recordProperties", P2, <<<<>>>>)
  IN Result([kind |-> "RecordDecl", name |-> name.raw, isGeneric |-> isGeneric,
             typeArgs |-> typeArgs.node, properties |-> props.node], props.P)

\* AveParser.parseGenericParams: the '<' has been eaten
parseGenericParams(P, types) ==
  IF PCheck(P, "GREATER") THEN Result(types, PNext(P))
  ELSE LET ty == call("parseType", P, <<>>)
       IN IF PCheck(ty.P, "COMMA")
            THEN call("parseGenericParams",
                      PNext(ty.P),
                      <<Append(types, ty.node.type)>>)
            ELSE Result(Append(types, ty.node.type), PExpect(ty.P, "GREATER"))

\* type-parser: parseType
parseType(P) ==
  LET t == call("parseNonUnionType", P, <<>>)
  IN IF PCheck(t.P, "PIPE")
       THEN LET members == call("unionMembers", t.P, <<<<t.node.type>>>>)
                union == newType(members.P, "UnionType", "", FALSE, members.node)
            IN Result([t.node EXCEPT !.type = union.node], union.P)
       ELSE t

\* while (parser.match(TT.PIPE)) subtypes.push(parseNonUnionType(parser).type)
unionMembers(P, subtypes) ==
  IF PCheck(P, "PIPE")
    THEN LET t == call("parseNonUnionType", PNext(P), <<>>)
         IN call("unionMembers", t.P, <<Append(subtypes, t.node.type)>>)
    ELSE Result(subtypes, P)

parseNonUnionType(P) ==
  IF isValidType(PPeek(P))
    THEN LET typeToken == PPeek(P)
             P1 == PNext(P)
         IN IF PCheck(P1, "L_SQ_BRACE")
              THEN LET el == fromToken(PExpect(PNext(P1), "R_SQ_BRACE"), typeToken)
                       arr == newType(el.P, "GenericInstance", "Array", FALSE, <<el.node>>)
                   IN Result(TypeInfo(typeToken, arr.node), arr.P)
            ELSE IF PCheck(P1, "LESS")
              THEN call("parseGenericInstance", PNext(P1), <<typeToken, <<>>>>)
            ELSE LET ty == fromToken(P1, typeToken)
                 IN Result(TypeInfo(typeToken, ty.node), ty.P)
  ELSE IF PCheck(P, "L_PAREN")
    THEN LET f == call("parseFunctionType", PNext(P), <<>>)
         IN Result(TypeInfo(PPeek(P), f.node), f.P)
  ELSE IF PCheck(P, "L_BRACE")
    THEN LET o == call("parseObjectType", PNext(P), <<<<>>>>)
             ty == newType(o.P, "ObjectType", "", FALSE, o.node)
         IN Result(TypeInfo(PPrevOrNone(o.P), ty.node), ty.P)
  ELSE Result(TypeInfo(PPeek(P), t_any), P)

parseFunctionType(P) ==
  LET params == call("typeParams", P, <<<<>>>>)
      ret == IF PCheck(params.P, "ARROW") THEN call("parseType",
                                                    PNext(params.P),
                                                    <<>>)
             ELSE Result(TypeInfo(NoToken, t_any), params.P)
  IN newType(ret.P, "FunctionType", "", FALSE, <<params.node, ret.node.type>>)

\* type-parser parseParams: while (!match(R_PAREN)) { parseParam(); if
\* (!check(R_PAREN)) expect(COMMA) }
typeParams(P, params) ==
  IF P.hang THEN Result(params, P)
  ELSE IF PCheck(P, "R_PAREN") THEN Result(params, PNext(P))
  ELSE LET r == call("typeParam", P, <<>>)
           P1 == IF PCheck(r.P, "R_PAREN") THEN r.P ELSE PExpect(r.P, "COMMA")
       IN IF P1.current = P.current
            THEN Result(Append(params, r.node), [P1 EXCEPT !.hang = TRUE])
            ELSE call("typeParams", P1, <<Append(params, r.node)>>)

typeParam(P) ==
  LET name == expected(P, "NAME")
      P1 == PExpect(P, "NAME")
      ty == IF PCheck(P1, "COLON") THEN call("parseType", PNext(P1), <<>>)
            ELSE Result(TypeInfo(NoToken, t_any), P1)
  IN Result([name |-> name.raw, type |-> ty.node.type, required |-> TRUE,
             hasDefault |-> FALSE, isRest |-> FALSE], ty.P)

parseGenericInstance(P, name, typeArgs) ==
  IF PCheck(P, "GREATER")
    THEN LET g == newType(PNext(P), "GenericInstance", name.raw, FALSE, typeArgs)
         IN Result(TypeInfo(name, g.node), g.P)
  ELSE LET ty == call("parseType", P, <<>>)
           args == Append(typeArgs, ty.node.type)
       IN IF PCheck(ty.P, "COMMA") THEN call("parseGenericInstance",
                                             PNext(ty.P),
                                             <<name, args>>)
          ELSE LET g == newType(PExpect(ty.P, "GREATER"), "GenericInstance", name.raw,
                                FALSE, args)
               IN Result(TypeInfo(name, g.node), g.P)

\* while (!parser.match(TT.R_BRACE) && !parser.eof()) { ... }
parseObjectType(P, properties) ==
  IF P.hang \/ PEof(P) THEN Result(properties, P)
  ELSE IF PCheck(P, "R_BRACE") THEN Result(properties, PNext(P))
  ELSE LET name == expected(P, "NAME")
           ty == call("parseType", PExpect(PExpect(P, "NAME"), "COLON"), <<>>)
           P1 == PMatch(ty.P, {"COMMA", "SEMI_COLON"})
           added == Append(properties, <<name.raw, ty.node.type>>)
       IN IF P1.current = P.current
            THEN Result(added, [P1 EXCEPT !.hang = TRUE])
            ELSE call("parseObjectType", P1, <<added>>)

\* the ParsedData parse() returns
ParsedData(P) ==
  [ast |-> Body(P.statements, P.blockScopestack[1]), hasError |-> P.hasError]

\* no parse() has returned yet
NoParsedData == [ast |-> Null, hasError |-> FALSE]

\* the method of the parser that a method calls: this.method(...args)
call(method, P, args) ==
  CASE method = "parseExpression" -> parseExpression(P, args[1])
    [] method = "infixLoop" -> infixLoop(P, args[1], args[2])
    [] method = "prefixParse" -> prefixParse(P, args[1])
    [] method = "infixParse" -> infixParse(P, args[1], args[2])
    [] method = "exprList" -> exprList(P, args[1], args[2])
    [] method = "objectPairs" -> objectPairs(P, args[1], args[2])
    [] method = "ObjectParser" -> ObjectParser(P, args[1])
    [] method = "statement" -> statement(P)
    [] method = "declaration" -> declaration(P)
    [] method = "varDeclarator" -> varDeclarator(P)
    [] method = "varDeclarators" -> varDeclarators(P, args[1])
    [] method = "varDeclaration" -> varDeclaration(P, args[1])
    [] method = "sugarDeclaration" -> sugarDeclaration(P)
    [] method = "blockStatements" -> blockStatements(P, args[1])
    [] method = "ifStmt" -> ifStmt(P)
    [] method = "forBody" -> forBody(P, args[1])
    [] method = "forStmt" -> forStmt(P)
    [] method = "funcExpr" -> funcExpr(P)
    [] method = "funcDecl" -> funcDecl(P)
    [] method = "parseFunctionBody" -> parseFunctionBody(P, args[1], args[2])
    [] method = "parseParams" -> parseParams(P)
    [] method = "paramList" -> paramList(P, args[1])
    [] method = "parseParam" -> parseParam(P)
    [] method = "returnStmt" -> returnStmt(P)
    [] method = "recordDecl" -> recordDecl(P)
    [] method = "recordProperties" -> recordProperties(P, args[1])
    [] method = "parseGenericParams" -> parseGenericParams(P, args[1])
    [] method = "parseType" -> parseType(P)
    [] method = "unionMembers" -> unionMembers(P, args[1])
    [] method = "parseNonUnionType" -> parseNonUnionType(P)
    [] method = "parseFunctionType" -> parseFunctionType(P)
    [] method = "typeParams" -> typeParams(P, args[1])
    [] method = "typeParam" -> typeParam(P)
    [] method = "parseGenericInstance" -> parseGenericInstance(P, args[1], args[2])
    [] method = "parseObjectType" -> parseObjectType(P, args[1])

(***************************************************************************)
(* The types: Type, FunctionType, GenericType and GenericTypeInstance.     *)
(* Every object gets its id from Type.nextID, so two references are the    *)
(* same object exactly when the ids are equal.                             *)
(***************************************************************************)
\* a == b on two Type objects
sameType(a, b) == a.id = b.id

\* a value that was never set or passed; the rest flag of a parameter is
\* "true", "false" or undefined
undefined == "undefined"

\* new Type(tag) with the id it was given
Type(id, tag) == [kind |-> "Type", id |-> id, tag |-> tag, unresolved |-> FALSE]

\* unknown(tag)
unknown(id, tag) == [Type(id, tag) EXCEPT !.unresolved = TRUE]

ParameterTypeInfo(paramName, type, required, rest) ==
  [name |-> paramName, type |-> type, required |-> required, rest |-> rest]

\* new FunctionType(name, params, retType)
FunctionType(id, tag, params, retType) ==
  [kind |-> "FunctionType", id |-> id, tag |-> tag, unresolved |-> FALSE,
   params |-> params, returnType |-> retType]

\* new GenericType(tag, typeargs) with the properties added to it
GenericType(id, tag, typeargs, properties) ==
  [kind |-> "GenericType", id |-> id, tag |-> tag, unresolved |-> FALSE,
   typeParams |-> typeargs, properties |-> properties]

\* new GenericTypeInstance(tag, parentId, ...t)
GenericTypeInstance(id, tag, parentId, t) ==
  [kind |-> "GenericTypeInstance", id |-> id, tag |-> tag, unresolved |-> FALSE,
   typeCount |-> Len(t), types |-> t, parentId |-> parentId, properties |-> <<>>]

\* the field isPrimitive: true in Type, false in the two generic classes
isPrimitive(t) == t.kind \notin {"GenericType", "GenericTypeInstance"}

\* GenericTypeInstance.areEquivalent
areEquivalent(t1, t2) ==
  IF t1.parentId # t2.parentId \/ t1.typeCount # t2.typeCount THEN FALSE
  ELSE \A i \in 1..Len(t1.types) : sameType(t2.types[i], t1.types[i])

canAssignGeneric(t1, t2) ==
  IF t1.kind = "GenericTypeInstance" /\ t2.kind = "GenericTypeInstance"
    THEN areEquivalent(t1, t2)
    ELSE FALSE

\* isValidAssignment with += held to the rule of the other compound
\* assignments
isValidAssignmentPlusAsOthers(ta, tb, type) ==
  IF type = "EQ"
    THEN IF ~isPrimitive(ta) /\ ~isPrimitive(tb) THEN canAssignGeneric(ta, tb)
         ELSE IF sameType(ta, t_any) THEN TRUE
         ELSE sameType(ta, tb)
  ELSE sameType(ta, t_any) \/ (sameType(ta, t_number) /\ sameType(tb, t_number))

\* isValidAssignment(ta, tb, type); type is undefined when the caller
\* passes two arguments
isValidAssignment(ta, tb, type) ==
  IF type = "EQ"
    THEN IF ~isPrimitive(ta) /\ ~isPrimitive(tb) THEN canAssignGeneric(ta, tb)
         ELSE IF sameType(ta, t_any) THEN TRUE
         ELSE sameType(ta, tb)
  ELSE IF type = "PLUS_EQ"
    THEN (sameType(ta, t_number) /\ sameType(tb, t_number)) \/ sameType(ta, t_string)
  ELSE sameType(ta, t_any) \/ (sameType(ta, t_number) /\ sameType(tb, t_number))

\* GenericTypeInstance.canAssign (static)
instanceCanAssign(t1, t2) ==
  IF t1.parentId # t2.parentId \/ t1.typeCount # t2.typeCount THEN FALSE
  ELSE \A i \in 1..Len(t1.types) : isValidAssignment(t1.types[i], t2.types[i], "EQ")

\* the argument the rule of FunctionType.canAssign gives isValidAssignment
\* for the kind of assignment: it passes two arguments only
functionParamAssignment == undefined

\* this.canAssign(t), by the class of `this'
RECURSIVE canAssign(_, _)
canAssign(this, t) ==
  CASE this.kind = "FunctionType" ->
         IF t.kind # "FunctionType" THEN FALSE
         ELSE IF ~canAssign(this.returnType, t.returnType) THEN FALSE
         ELSE IF Len(t.params) # Len(this.params) THEN FALSE
         ELSE \A i \in 1..Len(this.params) :
                /\ ~(this.params[i].rest # t.params[i].rest)
                /\ isValidAssignment(t.params[i].type, this.params[i].type,
                                     functionParamAssignment)
    [] this.kind = "GenericType" ->
         IF t.kind = "GenericType" THEN this.id = t.id ELSE FALSE
    [] this.kind = "GenericTypeInstance" ->
         IF t.kind = "GenericTypeInstance" THEN instanceCanAssign(this, t) ELSE FALSE
    [] OTHER -> this.id = t_any.id \/ t.id = this.id

\* type.substitute(from, to) on a clone of the type: every occurrence of
\* `from' in the type is replaced by `to'
RECURSIVE substitute(_, _, _)
substitute(type, from, to) ==
  CASE sameType(type, from) -> to
    [] type.kind = "FunctionType" ->
         [type EXCEPT
            !.params = [i \in 1..Len(type.params) |->
                          [type.params[i] EXCEPT
                             !.type = substitute(type.params[i].type, from, to)]],
            !.returnType = substitute(type.returnType, from, to)]
    [] type.kind = "GenericTypeInstance" ->
         [type EXCEPT
            !.types = [i \in 1..Len(type.types) |->
                         substitute(type.types[i], from, to)]]
    [] OTHER -> type

\* substitute(formals[i], actuals[i]) for i = from, from + 1, ...
RECURSIVE substituteEach(_, _, _, _)
substituteEach(type, formals, actuals, from) ==
  IF from > Len(formals) THEN type
  ELSE substituteEach(substitute(type, formals[from], actuals[from]),
                      formals, actuals, from + 1)

\* what the forEach of create puts in place of the i-th formal
createReplacements(this, t) == this.typeParams

\* this.create(...t), the instance getting the id `id'
create(this, t, id) ==
  IF Len(t) # Len(this.typeParams) THEN "Error"
  ELSE [GenericTypeInstance(id, this.tag, this.id, t) EXCEPT
          !.properties =
             [k \in 1..Len(this.properties) |->
                <<this.properties[k][1],
                  substituteEach(this.properties[k][2], this.typeParams,
                                 createReplacements(this, t), 1)>>]]

numID == t_number.id
strID == t_string.id

\* addTable: one row for each of 0..numID, a row holding the cells that
\* were assigned; any other index reads undefined
addTable ==
  [i \in 0..numID |->
     CASE i = numID -> (numID :> t_number) @@ (strID :> t_string)
       [] i = strID -> (numID :> t_string) @@ (strID :> t_string)
       [] OTHER -> <<>>]

addRule(lt, rt) ==
  IF lt.id \in DOMAIN addTable /\ rt.id \in DOMAIN addTable[lt.id]
    THEN addTable[lt.id][rt.id]
    ELSE t_error

comparisonTypeCheck(lt, rt) ==
  IF sameType(lt, t_number) /\ sameType(rt, t_number) THEN t_bool ELSE t_error

binaryTypeCheck(lt, rt) ==
  IF sameType(lt, t_number) /\ sameType(rt, t_number) THEN t_number ELSE t_error

\* the rule of `or' and `and' without the test for t_error
checkConditionalTypeAlwaysBool(l, r) == t_bool

checkConditionalType(l, r) ==
  IF sameType(l, t_error) \/ sameType(r, t_error) THEN t_error ELSE t_bool

binaryOp(l, op, r) ==
  CASE op = "PLUS" -> addRule(l, r)
    [] op \in {"EQ_EQ", "BANG_EQ"} ->
         IF ~sameType(l, t_error) /\ ~sameType(r, t_error) THEN t_bool ELSE t_error
    [] op \in {"LESS", "LESS_EQ", "GREATER", "GREATER_EQ"} -> comparisonTypeCheck(l, r)
    [] op \in {"MINUS", "STAR", "DIV", "FLOOR_DIV", "POW", "AMP", "PIPE", "XOR"} ->
         binaryTypeCheck(l, r)
    [] op \in {"OR", "AND"} -> checkConditionalType(l, r)
    [] OTHER -> t_error

unaryTypeCheck(tOperand) ==
  IF sameType(tOperand, t_number) THEN t_number ELSE t_error

unaryOp(operator, t_operand) ==
  CASE operator \in {"PLUS_PLUS", "MINUS_MINUS", "PLUS", "MINUS"} ->
         unaryTypeCheck(t_operand)
    [] operator = "BANG" ->
         IF sameType(t_operand, t_error) THEN t_error ELSE t_bool
    [] OTHER -> t_error

\* no type has been built and nothing asked
NoTyping == [pc |-> "idle"]

(***************************************************************************)
(* The lexer's steps.                                                      *)
(***************************************************************************)
RECURSIVE SeqsUpTo(_, _)
SeqsUpTo(S, n) ==
  IF n = 0 THEN {<<>>}
  ELSE LET shorter == SeqsUpTo(S, n - 1)
       IN shorter \cup {Append(s, c) : s \in {t \in shorter : Len(t) = n - 1}, c \in S}

Sources == SeqsUpTo(Alphabet, MaxLen)

LexInit ==
  /\ \E source \in Sources : lexer = NewLexer(source)
  /\ lexPc = "lex"
  /\ parser = IdleParser
  /\ parsePc = "idle"
  /\ previous = NoParsedData
  /\ typing = NoTyping

\* one iteration of the loop of lex(): this.start = this.current; scanToken()
ScanToken ==
  /\ lexPc = "lex"
  /\ ~eof(lexer)
  /\ lexer' = scanToken([lexer EXCEPT !.start = lexer.current])
  /\ lexPc' = IF peek(lexer) = "#" THEN "comment" ELSE "lex"
  /\ UNCHANGED <<parser, parsePc, previous, typing>>

\* one iteration of `while (!this.check('\n')) this.next()'
CommentNext ==
  /\ lexPc = "comment"
  /\ ~check(lexer, NL)
  /\ lexer.current < Len(lexer.sourceCode) + MaxOverrun
  /\ lexer' = next(lexer)
  /\ UNCHANGED <<lexPc, parser, parsePc, previous, typing>>

\* the comment loop ends in front of a '\n'
CommentEnd ==
  /\ lexPc = "comment"
  /\ check(lexer, NL)
  /\ lexPc' = "lex"
  /\ UNCHANGED <<lexer, parser, parsePc, previous, typing>>

\* the end of lex(): this.addToken(TokenType.EOF); return this.tokens
LexEOF ==
  /\ lexPc = "lex"
  /\ eof(lexer)
  /\ lexer' = addToken(lexer, "EOF")
  /\ lexPc' = "done"
  /\ UNCHANGED <<parser, parsePc, previous, typing>>

LexNext == ScanToken \/ CommentNext \/ CommentEnd \/ LexEOF

Spec == LexInit /\ [][LexNext]_vars

(***************************************************************************)
(* The parser's steps: new AveParser(tokens).parse().                      *)
(***************************************************************************)
MaxTokens == 3

lexemes ==
  "PLUS" :> "+" @@ "MINUS" :> "-" @@ "STAR" :> "*" @@ "DIV" :> "/" @@
    "MOD" :> "%" @@ "POW" :> "**" @@ "GREATER" :> ">" @@
    "GREATER_EQ" :> ">=" @@ "LESS" :> "<" @@ "LESS_EQ" :> "<=" @@
    "EQ_EQ" :> "==" @@ "IS" :> "is" @@ "BANG_EQ" :> "!=" @@ "XOR" :> "^" @@
    "PIPE" :> "|" @@ "AMP" :> "&" @@ "AND" :> "and" @@ "OR" :> "or" @@
    "EQ" :> "=" @@ "DIV_EQ" :> "/=" @@ "MINUS_EQ" :> "-=" @@
    "STAR_EQ" :> "*=" @@ "MOD_EQ" :> "%=" @@ "PLUS_EQ" :> "+=" @@
    "POW_EQ" :> "**=" @@ "BANG" :> "!" @@ "PLUS_PLUS" :> "++" @@
    "MINUS_MINUS" :> "--" @@ "DOT" :> "." @@ "COMMA" :> "," @@
    "COLON" :> ":" @@ "SEMI_COLON" :> ";" @@ "L_PAREN" :> "(" @@
    "R_PAREN" :> ")" @@ "L_SQ_BRACE" :> "[" @@ "R_SQ_BRACE" :> "]" @@
    "L_BRACE" :> "{" @@ "R_BRACE" :> "}" @@ "ARROW" :> "->" @@
    "VAR" :> "var" @@ "LET" :> "let" @@ "CONST" :> "const" @@
    "FUNC" :> "func" @@ "RECORD" :> "record" @@ "IF" :> "if" @@
    "ELIF" :> "elif" @@ "ELSE" :> "else" @@ "WHILE" :> "while" @@
    "FOR" :> "for" @@ "RETURN" :> "return" @@ "TRUE" :> "true" @@
    "FALSE" :> "false" @@ "NUMBER" :> "num" @@ "STRING" :> "str" @@
    "BOOL" :> "bool" @@ "ANY" :> "any" @@ "OBJECT" :> "object" @@
    "INDENT" :> "" @@ "DEDENT" :> "" @@ "NEWLINE" :> "" @@ "EOF" :> ""

tok(type) == [type |-> type, raw |-> lexemes[type]]
name(id) == [type |-> "NAME", raw |-> id]
num(digits) == [type |-> "LITERAL_NUM", raw |-> digits]

\* the binary and the assignment operators of the infix table
OperatorTokens ==
  {t \in DOMAIN infixParselets :
     infixParselets[t].parselet \in {"Binary", "AssignmentParser"}}

\* a op1 b op2 c
OperatorProgram(op1, op2) ==
  <<name("a"), tok(op1), name("b"), tok(op2), name("c"), tok("EOF")>>

OperatorPrograms == {OperatorProgram(op1, op2) : op1, op2 \in OperatorTokens}

\* 1 + 2 * -3
PrecedenceProgram ==
  <<num("1"), tok("PLUS"), num("2"), tok("STAR"), tok("MINUS"), num("3"), tok("EOF")>>

\* var k = 4 / while k / k -= 1
WhileProgram ==
  <<tok("VAR"), name("k"), tok("EQ"), num("4"), tok("SEMI_COLON"),
    tok("WHILE"), name("k"), tok("INDENT"),
    name("k"), tok("MINUS_EQ"), num("1"), tok("DEDENT"), tok("EOF")>>

\* array[index]
IndexProgram ==
  <<name("array"), tok("L_SQ_BRACE"), name("index"), tok("R_SQ_BRACE"), tok("EOF")>>

\* array{index]
BraceIndexProgram ==
  <<name("array"), tok("L_BRACE"), name("index"), tok("R_SQ_BRACE"), tok("EOF")>>

\* programs that go through the other statements of AveParser
StatementPrograms ==
  { \* if a / b = 1 / elif c / return / else / d++
    <<tok("IF"), name("a"), tok("INDENT"), name("b"), tok("EQ"), num("1"),
      tok("DEDENT"), tok("ELIF"), name("c"), tok("INDENT"), tok("RETURN"),
      tok("DEDENT"), tok("ELSE"), tok("INDENT"), name("d"), tok("PLUS_PLUS"),
      tok("DEDENT"), tok("EOF")>>,
    \* for i = 0, n, 2 / f(i, [i])
    <<tok("FOR"), name("i"), tok("EQ"), num("0"), tok("COMMA"), name("n"),
      tok("COMMA"), num("2"), tok("INDENT"), name("f"), tok("L_PAREN"),
      name("i"), tok("COMMA"), tok("L_SQ_BRACE"), name("i"), tok("R_SQ_BRACE"),
      tok("R_PAREN"), tok("DEDENT"), tok("EOF")>>,
    \* for i = 0, n / <end of file>
    <<tok("FOR"), name("i"), tok("EQ"), num("0"), tok("COMMA"), name("n"),
      tok("INDENT"), name("i"), tok("EOF")>>,
    \* func f(a: num, b = 1): T | str / return a.b
    <<tok("FUNC"), name("f"), tok("L_PAREN"), name("a"), tok("COLON"),
      tok("NUMBER"), tok("COMMA"), name("b"), tok("EQ"), num("1"),
      tok("R_PAREN"), tok("COLON"), name("T"), tok("PIPE"), tok("STRING"),
      tok("INDENT"), tok("RETURN"), name("a"), tok("DOT"), name("b"),
      tok("DEDENT"), tok("EOF")>>,
    \* record R<T, U> / x: T[] / y: M<U>
    <<tok("RECORD"), name("R"), tok("LESS"), name("T"), tok("COMMA"), name("U"),
      tok("GREATER"), tok("INDENT"), name("x"), tok("COLON"), name("T"),
      tok("L_SQ_BRACE"), tok("R_SQ_BRACE"), name("y"), tok("COLON"), name("M"),
      tok("LESS"), name("U"), tok("GREATER"), tok("DEDENT"), tok("EOF")>>,
    \* record R / +
    <<tok("RECORD"), name("R"), tok("INDENT"), tok("PLUS"), tok("EOF")>>,
    \* let (a: num = 1, b); c := (a); const g = func (x) / x
    <<tok("LET"), tok("L_PAREN"), name("a"), tok("COLON"), tok("NUMBER"),
      tok("EQ"), num("1"), tok("COMMA"), name("b"), tok("R_PAREN"),
      tok("SEMI_COLON"), name("c"), tok("COLON"), tok("EQ"), tok("L_PAREN"),
      name("a"), tok("R_PAREN"), tok("SEMI_COLON"), tok("CONST"), name("g"),
      tok("EQ"), tok("FUNC"), tok("L_PAREN"), name("x"), tok("R_PAREN"),
      tok("INDENT"), name("x"), tok("DEDENT"), tok("EOF")>>,
    \* var h: (a: num) -> {x: num}
    <<tok("VAR"), name("h"), tok("COLON"), tok("L_PAREN"), name("a"),
      tok("COLON"), tok("NUMBER"), tok("R_PAREN"), tok("ARROW"), tok("L_BRACE"),
      name("x"), tok("COLON"), tok("NUMBER"), tok("R_BRACE"), tok("EOF")>>,
    \* o = {x: 1, y: !b}
    <<name("o"), tok("EQ"), tok("L_BRACE"), name("x"), tok("COLON"), num("1"),
      tok("COMMA"), name("y"), tok("COLON"), tok("BANG"), name("b"),
      tok("R_BRACE"), tok("EOF")>> }

\* the token kinds of the short token lists
ParserAlphabet ==
  { name("a"), num("1"), tok("PLUS"), tok("POW"), tok("EQ"), tok("L_SQ_BRACE"),
    tok("R_SQ_BRACE"), tok("L_BRACE"), tok("WHILE"), tok("INDENT"),
    tok("DEDENT") }

ShortPrograms == {Append(s, tok("EOF")) : s \in SeqsUpTo(ParserAlphabet, MaxTokens)}

\* var dbl = (a: num) -> a * 2
ArrowProgram ==
  <<tok("VAR"), name("dbl"), tok("EQ"), tok("L_PAREN"), name("a"), tok("COLON"),
    tok("NUMBER"), tok("R_PAREN"), tok("ARROW"), name("a"), tok("STAR"), num("2"),
    tok("EOF")>>

\* (a) -> a * 2
PlainArrowProgram ==
  <<tok("L_PAREN"), name("a"), tok("R_PAREN"), tok("ARROW"), name("a"),
    tok("STAR"), num("2"), tok("EOF")>>

\* ** ; a
ErrorThenStatementProgram ==
  <<tok("POW"), tok("SEMI_COLON"), name("a"), tok("EOF")>>

\* var x: Foo = 1
PlaceholderTypeProgram ==
  <<tok("VAR"), name("x"), tok("COLON"), name("Foo"), tok("EQ"), num("1"),
    tok("EOF")>>

\* var x = 1; let y = 2; z := 3; const w = 4
DeclarationsProgram ==
  <<tok("VAR"), name("x"), tok("EQ"), num("1"), tok("SEMI_COLON"),
    tok("LET"), name("y"), tok("EQ"), num("2"), tok("SEMI_COLON"),
    name("z"), tok("COLON"), tok("EQ"), num("3"), tok("SEMI_COLON"),
    tok("CONST"), name("w"), tok("EQ"), num("4"), tok("EOF")>>

\* func f() / func g() / return h / if a / func h() / return 1 / k = func () / g
NestedFunctionsProgram ==
  <<tok("FUNC"), name("f"), tok("L_PAREN"), tok("R_PAREN"), tok("INDENT"),
      tok("FUNC"), name("g"), tok("L_PAREN"), tok("R_PAREN"), tok("INDENT"),
        tok("RETURN"), name("h"), tok("DEDENT"),
      tok("IF"), name("a"), tok("INDENT"),
        tok("FUNC"), name("h"), tok("L_PAREN"), tok("R_PAREN"), tok("INDENT"),
          tok("RETURN"), num("1"), tok("DEDENT"),
        tok("DEDENT"),
      tok("DEDENT"),
    name("k"), tok("EQ"), tok("FUNC"), tok("L_PAREN"), tok("R_PAREN"),
      tok("INDENT"), name("g"), tok("DEDENT"),
    tok("EOF")>>

\* func f() / for i = 0, n / if a / b / else / c / x
ScopesProgram ==
  <<tok("FUNC"), name("f"), tok("L_PAREN"), tok("R_PAREN"), tok("INDENT"),
      tok("FOR"), name("i"), tok("EQ"), num("0"), tok("COMMA"), name("n"),
      tok("INDENT"),
        tok("IF"), name("a"), tok("INDENT"), name("b"), tok("DEDENT"),
        tok("ELSE"), tok("INDENT"), name("c"), tok("DEDENT"),
      tok("DEDENT"),
    tok("DEDENT"),
    name("x"), tok("EOF")>>

\* the token kinds of the short bodies of a function declaration
FunctionAlphabet ==
  { tok("FUNC"), name("g"), tok("L_PAREN"), tok("R_PAREN"), tok("INDENT"),
    tok("DEDENT"), tok("IF") }

\* func f() / followed by a short list of tokens
FunctionPrograms ==
  { <<tok("FUNC"), name("f"), tok("L_PAREN"), tok("R_PAREN"), tok("INDENT")>>
      \o s \o <<tok("EOF")>> : s \in SeqsUpTo(FunctionAlphabet, MaxTokens) }

Programs ==
  OperatorPrograms \cup StatementPrograms \cup ShortPrograms \cup FunctionPrograms
    \cup {PrecedenceProgram, WhileProgram, IndexProgram, BraceIndexProgram,
          ArrowProgram, PlainArrowProgram, ErrorThenStatementProgram,
          PlaceholderTypeProgram, DeclarationsProgram, NestedFunctionsProgram,
          ScopesProgram}

ParseInit ==
  /\ lexer = NewLexer(<<>>)
  /\ lexPc = "idle"
  /\ \E tokens \in Programs : parser = NewParser(tokens)
  /\ parsePc = "parse"
  /\ previous = NoParsedData
  /\ typing = NoTyping

\* whether the loop of parse() goes on
parseLoopGoesOn(P) == ~P.hasError /\ ~PCheck(P, "EOF")

\* one iteration of the loop of parse():
\* this.ast.body.statements.push(this.statement())
ParseStatement ==
  /\ parsePc = "parse"
  /\ parseLoopGoesOn(parser)
  /\ LET r == statement(parser)
     IN /\ parser' = [r.P EXCEPT !.statements = Append(@, r.node)]
        /\ parsePc' = IF r.P.hang THEN "hang" ELSE "parse"
  /\ UNCHANGED <<lexer, lexPc, previous, typing>>

\* the loop of parse() ends and parse() returns
ParseEnd ==
  /\ parsePc = "parse"
  /\ ~parseLoopGoesOn(parser)
  /\ parser' = PMatch(parser, {"EOF"})
  /\ parsePc' = "done"
  /\ UNCHANGED <<lexer, lexPc, previous, typing>>

\* the same process parses the same tokens once more: a new AveParser, while
\* the static Type.nextID stays where the first run left it
ParseAgain ==
  /\ parsePc = "done"
  /\ previous = NoParsedData
  /\ previous' = ParsedData(parser)
  /\ parser' = [NewParser(parser.tokens) EXCEPT !.nextID = parser.nextID]
  /\ parsePc' = "parse"
  /\ UNCHANGED <<lexer, lexPc, typing>>

ParseNext == ParseStatement \/ ParseEnd \/ ParseAgain

ParseSpec == ParseInit /\ [][ParseNext]_vars

(***************************************************************************)
(* The type rules' steps: two types are built with the constructors, then  *)
(* one of the rules is applied to them.                                    *)
(***************************************************************************)
MaxTypeDepth == 2
MaxParams == 1

\* const T = unknown('T'); t_Array = new GenericType('Array', [T])
formalT == unknown(FirstFreeTypeID, "T")
t_Array == GenericType(FirstFreeTypeID + 1, "Array", <<formalT>>, <<>>)

\* a generic record Box<T> with properties that mention T:
\* value: T, get: () -> T, all: Array<T>
t_Box ==
  GenericType(FirstFreeTypeID + 4, "Box", <<formalT>>,
    << <<"value", formalT>>,
       <<"get", FunctionType(FirstFreeTypeID + 2, "", <<>>, formalT)>>,
       <<"all", GenericTypeInstance(FirstFreeTypeID + 3, "Array", t_Array.id,
                                    <<formalT>>)>> >>)

\* a generic record Pair<K, V> with properties first: K, second: V, size: num
formalK == unknown(FirstFreeTypeID + 5, "K")
formalV == unknown(FirstFreeTypeID + 6, "V")
t_Pair ==
  GenericType(FirstFreeTypeID + 7, "Pair", <<formalK, formalV>>,
    << <<"first", formalK>>, <<"second", formalV>>, <<"size", t_number>> >>)

Generics == {t_Array, t_Box, t_Pair}
Formals == {formalT, formalK, formalV}

\* Type.nextID once the types above exist
FirstBuiltTypeID == FirstFreeTypeID + 8

Primitives == {t_any, t_object, t_string, t_number, t_bool, t_error, t_infer}

\* the type expressions the two types are built from
RECURSIVE InstanceShapes(_)
InstanceShapes(depth) ==
  IF depth = 0 THEN {}
  ELSE { [shape |-> "instance", generic |-> g, args |-> <<a>>] :
           g \in {t_Array, t_Box},
           a \in { [shape |-> "primitive", type |-> t] :
                    t \in {t_any, t_number, t_string} }
                 \cup InstanceShapes(depth - 1) }

ParamShapes ==
  { [type |-> [shape |-> "primitive", type |-> t], rest |-> r] :
      t \in {t_any, t_string, t_number}, r \in {undefined, "true"} }

FunctionShapes ==
  { [shape |-> "function", params |-> ps, returns |-> [shape |-> "primitive", type |-> t]] :
      ps \in SeqsUpTo(ParamShapes, MaxParams), t \in {t_any, t_number} }

Shapes ==
  { [shape |-> "primitive", type |-> t] : t \in Primitives }
    \cup InstanceShapes(MaxTypeDepth) \cup FunctionShapes

\* the types the constructors make for a list of type expressions, each new
\* object taking Type.nextID
RECURSIVE build(_, _)
build(shapes, nextID) ==
  IF shapes = <<>> THEN [types |-> <<>>, nextID |-> nextID]
  ELSE LET s == Head(shapes)
           first ==
             CASE s.shape = "primitive" -> [type |-> s.type, nextID |-> nextID]
               [] s.shape = "instance" ->
                    LET args == build(s.args, nextID)
                    IN  [type |-> create(s.generic, args.types, args.nextID),
                         nextID |-> args.nextID + 1]
               [] s.shape = "function" ->
                    LET parts == build([i \in 1..Len(s.params) |-> s.params[i].type]
                                         \o <<s.returns>>, nextID)
                        n == Len(s.params)
                    IN  [type |-> FunctionType(parts.nextID, "",
                                    [i \in 1..n |->
                                       ParameterTypeInfo("p", parts.types[i], TRUE,
                                                         s.params[i].rest)],
                                    parts.types[n + 1]),
                         nextID |-> parts.nextID + 1]
           others == build(Tail(shapes), first.nextID)
       IN  [types |-> <<first.type>> \o others.types, nextID |-> others.nextID]

CompoundAssignments ==
  {"PLUS_EQ", "MINUS_EQ", "STAR_EQ", "DIV_EQ", "MOD_EQ", "POW_EQ"}
AssignmentKinds == {"EQ", undefined} \cup CompoundAssignments

ArithmeticOperators ==
  {"MINUS", "STAR", "DIV", "FLOOR_DIV", "MOD", "POW", "AMP", "PIPE", "XOR"}
ComparisonOperators == {"LESS", "LESS_EQ", "GREATER", "GREATER_EQ"}
EqualityOperators == {"EQ_EQ", "BANG_EQ"}
LogicalOperators == {"OR", "AND"}
BinaryOperators ==
  {"PLUS"} \cup ArithmeticOperators \cup ComparisonOperators
    \cup EqualityOperators \cup LogicalOperators

NumericUnaryOperators == {"PLUS", "MINUS", "PLUS_PLUS", "MINUS_MINUS"}
UnaryOperators == NumericUnaryOperators \cup {"BANG", "TILDE"}

TypeInit ==
  /\ lexer = NewLexer(<<>>)
  /\ lexPc = "idle"
  /\ parser = IdleParser
  /\ parsePc = "idle"
  /\ previous = NoParsedData
  /\ typing = [pc |-> "left", nextID |-> FirstBuiltTypeID]

\* ta = <a type expression>
BuildLeft ==
  /\ typing.pc = "left"
  /\ \E s \in Shapes :
       LET b == build(<<s>>, typing.nextID)
       IN  typing' = [pc |-> "right", nextID |-> b.nextID, ta |-> b.types[1]]
  /\ UNCHANGED <<lexer, lexPc, parser, parsePc, previous>>

\* tb = <a type expression>
BuildRight ==
  /\ typing.pc = "right"
  /\ \E s \in Shapes :
       LET b == build(<<s>>, typing.nextID)
       IN  typing' = [pc |-> "ask", nextID |-> b.nextID, ta |-> typing.ta,
                      tb |-> b.types[1]]
  /\ UNCHANGED <<lexer, lexPc, parser, parsePc, previous>>

\* tb = ta
AliasRight ==
  /\ typing.pc = "right"
  /\ typing' = [pc |-> "ask", nextID |-> typing.nextID, ta |-> typing.ta,
                tb |-> typing.ta]
  /\ UNCHANGED <<lexer, lexPc, parser, parsePc, previous>>

Answer(rule, with, result) ==
  /\ typing.pc = "ask"
  /\ typing' = [pc |-> "answered", nextID |-> typing.nextID, ta |-> typing.ta,
                tb |-> typing.tb, rule |-> rule, with |-> with, result |-> result]
  /\ UNCHANGED <<lexer, lexPc, parser, parsePc, previous>>

\* ta.canAssign(tb)
CanAssign == Answer("canAssign", undefined, canAssign(typing.ta, typing.tb))

\* isValidAssignment(ta, tb, type), isValidAssignment(ta, tb)
IsValidAssignment ==
  \E type \in AssignmentKinds :
    Answer("isValidAssignment", type, isValidAssignment(typing.ta, typing.tb, type))

\* GenericTypeInstance.areEquivalent(ta, tb)
AreEquivalent ==
  /\ typing.pc = "ask"
  /\ typing.ta.kind = "GenericTypeInstance"
  /\ typing.tb.kind = "GenericTypeInstance"
  /\ Answer("areEquivalent", undefined, areEquivalent(typing.ta, typing.tb))

\* binaryOp(ta, op, tb)
BinaryOp ==
  \E op \in BinaryOperators :
    Answer("binaryOp", op, binaryOp(typing.ta, op, typing.tb))

\* unaryOp(op, ta)
UnaryOp ==
  \E op \in UnaryOperators :
    Answer("unaryOp", op, unaryOp(op, typing.ta))

\* generic.create(ta), generic.create(ta, tb)
Create ==
  /\ typing.pc = "ask"
  /\ \E g \in Generics, n \in 1..2 :
       LET t == SubSeq(<<typing.ta, typing.tb>>, 1, n)
       IN  /\ typing' = [pc |-> "answered", nextID |-> typing.nextID + 1,
                         ta |-> typing.ta, tb |-> typing.tb, rule |-> "create",
                         with |-> [generic |-> g, t |-> t],
                         result |-> create(g, t, typing.nextID)]
  /\ UNCHANGED <<lexer, lexPc, parser, parsePc, previous>>

TypeNext ==
  \/ BuildLeft
  \/ BuildRight
  \/ AliasRight
  \/ CanAssign
  \/ IsValidAssignment
  \/ AreEquivalent
  \/ BinaryOp
  \/ UnaryOp
  \/ Create

TypeSpec == TypeInit /\ [][TypeNext]_vars

(***************************************************************************)
(* Properties of the lexer.                                                *)
(***************************************************************************)
tokenTypes(toks) == [i \in 1..Len(toks) |-> toks[i].type]

RECURSIVE countOf(_, _)
countOf(types, kind) ==
  IF types = <<>> THEN 0
  ELSE (IF types[1] = kind THEN 1 ELSE 0) + countOf(Tail(types), kind)

LayoutKinds == {"NEWLINE", "INDENT", "DEDENT"}

C3_NoLayoutInsideBrackets ==
  (lexer.tokens # <<>> /\ lexer.tokens[Len(lexer.tokens)].type \in LayoutKinds)
     => lexer.brackets = <<>>

\* C4: NEWLINE tokens are coalesced: a NEWLINE token is never immediately
\* preceded by a NEWLINE, INDENT or DEDENT token.
C4_NewlinesCoalesced ==
  \A i \in 2..Len(lexer.tokens) :
     lexer.tokens[i].type = "NEWLINE" => lexer.tokens[i - 1].type \notin LayoutKinds

\* the comment loop is running with nothing left to read: peek() is '\0' from
\* here on, so its exit condition check('\n') never becomes true
CommentLoopPastEnd == lexPc = "comment" /\ eof(lexer)

\* C5: lex() terminates on every source (the loops of the lexer stop at the end
\* of the input, also inside a '#' comment with no trailing newline), and the
\* token list it returns holds exactly one EOF token, its last element.
C5_LexTerminates ==
  /\ ~CommentLoopPastEnd
  /\ lexPc = "done" =>
       /\ countOf(tokenTypes(lexer.tokens), "EOF") = 1
       /\ lexer.tokens[Len(lexer.tokens)].type = "EOF"

\* C6: a lexical error does not stop the lexer and does not lose the lexeme: the
\* call of scanToken that sets hasError also adds a (best-effort) token for the
\* lexeme it was scanning, and the lexer stays in its scanning loop.
C6_ErrorStillEmitsToken ==
  [][(~lexer.hasError /\ lexer'.hasError) =>
        /\ Len(lexer'.tokens) = Len(lexer.tokens) + 1
        /\ lexer'.tokens[Len(lexer'.tokens)].pos.start = lexer'.start
        /\ lexPc' = "lex"]_vars

\* the positions of the source inside a '#' comment (from a '#' that starts a
\* comment up to, not including, the next '\n'), for a source without strings
RECURSIVE commentPositions(_, _, _)
commentPositions(s, i, inside) ==
  IF i > Len(s) THEN {}
  ELSE IF s[i] = NL THEN commentPositions(s, i + 1, FALSE)
  ELSE IF inside \/ s[i] = "#" THEN {i - 1} \cup commentPositions(s, i + 1, TRUE)
  ELSE commentPositions(s, i + 1, FALSE)

\* C7: token round trip: each token's raw lexeme is source[start..end) with
\* 0 <= start <= end <= length(source); the spans are in increasing order and
\* do not overlap, the EOF token included; the characters no token covers are
\* whitespace and comment text only.
C7_TokenRoundTrip ==
  LET toks == lexer.tokens
      src == lexer.sourceCode
      covered == {p \in 0..(Len(src) - 1) :
                    \E i \in 1..Len(toks) : toks[i].pos.start <= p /\ p < toks[i].pos.end}
  IN /\ \A i \in 1..Len(toks) :
          /\ 0 <= toks[i].pos.start
          /\ toks[i].pos.start <= toks[i].pos.end
          /\ toks[i].pos.end <= Len(src)
          /\ toks[i].raw = SubSeq(src, toks[i].pos.start + 1, toks[i].pos.end)
     /\ \A i \in 1..(Len(toks) - 1) : toks[i].pos.end <= toks[i + 1].pos.start
     /\ (lexPc = "done" /\ "\"" \notin {src[i] : i \in 1..Len(src)}) =>
          \A p \in 0..(Len(src) - 1) :
             p \in covered \/ src[p + 1] \in {" ", NL} \/ p \in commentPositions(src, 1, FALSE)

\* the multi-character operators and the token kind of each
MultiCharOperators ==
  { <<<<"=", "=">>, "EQ_EQ">>, <<<<"!", "=">>, "BANG_EQ">>,
    <<<<"<", "=">>, "LESS_EQ">>, <<<<">", "=">>, "GREATER_EQ">>,
    <<<<"+", "=">>, "PLUS_EQ">>, <<<<"-", "=">>, "MINUS_EQ">>,
    <<<<"*", "=">>, "STAR_EQ">>, <<<<"/", "=">>, "DIV_EQ">>,
    <<<<"%", "=">>, "MOD_EQ">>, <<<<"*", "*">>, "POW">>,
    <<<<"*", "*", "=">>, "POW_EQ">>, <<<<"+", "+">>, "PLUS_PLUS">>,
    <<<<"-", "-">>, "MINUS_MINUS">>, <<<<"-", ">">>, "ARROW">>,
    <<<<"/", "/">>, "FLOOR_DIV">>, <<<<"/", "/", "=">>, "FLOOR_DIV_EQ">> }

\* C8: operator scanning is longest-match: a source that is one of the
\* multi-character operators is lexed to exactly one token of that operator's
\* kind, whose lexeme is the whole operator, followed by EOF.
C8_LongestMatch ==
  \A op \in MultiCharOperators :
     (lexPc = "done" /\ lexer.sourceCode = op[1]) =>
        /\ Len(lexer.tokens) = 2
        /\ lexer.tokens[1].type = op[2]
        /\ lexer.tokens[1].raw = op[1]
        /\ lexer.tokens[2].type = "EOF"

(***************************************************************************)
(* Properties of the parser.                                               *)
(***************************************************************************)
AssignmentOperators ==
  {"EQ", "DIV_EQ", "MINUS_EQ", "STAR_EQ", "MOD_EQ", "PLUS_EQ", "POW_EQ"}

\* the level of an operator in the table of precedence, low to high
tableLevel(op) ==
  CASE op \in AssignmentOperators -> 1
    [] op = "OR" -> 2
    [] op = "AND" -> 3
    [] op = "PIPE" -> 4
    [] op = "XOR" -> 5
    [] op = "AMP" -> 6
    [] op \in {"EQ_EQ", "IS", "BANG_EQ"} -> 7
    [] op \in {"GREATER", "GREATER_EQ", "LESS", "LESS_EQ"} -> 8
    [] op \in {"PLUS", "MINUS"} -> 9
    [] op \in {"STAR", "DIV", "MOD"} -> 10
    [] op = "POW" -> 11

\* assignment and ** group to the right, all others to the left
tableRightAssociative(op) == op \in AssignmentOperators \cup {"POW"}

operatorNode(op, left, right) ==
  IF op \in AssignmentOperators THEN AssignmentExpr(left, tok(op), right)
  ELSE BinaryExpr(left, tok(op), right)

\* the tree the table gives a op1 b op2 c
tableTree(op1, op2) ==
  LET a == Identifier(name("a"))
      b == Identifier(name("b"))
      c == Identifier(name("c"))
  IN IF tableLevel(op2) > tableLevel(op1)
          \/ (tableLevel(op2) = tableLevel(op1) /\ tableRightAssociative(op2))
       THEN operatorNode(op1, a, operatorNode(op2, b, c))
       ELSE operatorNode(op2, operatorNode(op1, a, b), c)

\* C1: the parse of a op1 b op2 c follows the table of precedence: the
\* operator of the higher level binds tighter, operators of one level group
\* to the left, assignment and ** group to the right; and 1 + 2 * -3 parses
\* as 1 + (2 * (-3)).
C1_PrecedenceFollowsTable ==
  parsePc = "done" =>
    /\ \A op1, op2 \in OperatorTokens :
         parser.tokens = OperatorProgram(op1, op2) =>
           parser.statements = <<ExprStmt(tableTree(op1, op2))>>
    /\ parser.tokens = PrecedenceProgram =>
         parser.statements =
           <<ExprStmt(BinaryExpr(Literal(num("1")), tok("PLUS"),
                        BinaryExpr(Literal(num("2")), tok("STAR"),
                          PrefixUnaryExpr(tok("MINUS"), Literal(num("3"))))))>>

\* C9: a `while' keyword at statement position is parsed as a WhileStmt:
\* the statement that statement() returns there is one WhileStmt node, and
\* for var k = 4 / while k / k -= 1 its condition is k and its body holds
\* the single statement k -= 1.
C9_WhileParsedAsWhileStmt ==
  [][ (parsePc = "parse" /\ parseLoopGoesOn(parser) /\ PCheck(parser, "WHILE")) =>
        /\ Len(parser'.statements) = Len(parser.statements) + 1
        /\ parser'.statements[Len(parser'.statements)].kind = "WhileStmt"
        /\ parser.tokens = WhileProgram =>
             /\ parser'.statements[2].condition = Identifier(name("k"))
             /\ parser'.statements[2].body.statements =
                  <<ExprStmt(AssignmentExpr(Identifier(name("k")), tok("MINUS_EQ"),
                                            Literal(num("1"))))>> ]_vars

\* C10: an expression followed by [ expr ] parses as a MemberAccessExpr with
\* isIndexed = true, the left expression as object and the bracketed
\* expression as property; the token [ and not the token { starts it.
C10_IndexedMemberAccess ==
  parsePc = "done" =>
    /\ parser.tokens = IndexProgram =>
         parser.statements =
           <<ExprStmt(MemberAccessExpr(Identifier(name("array")),
                                       Identifier(name("index")), TRUE))>>
    /\ parser.tokens = BraceIndexProgram =>
         parser.statements[1].expr.kind # "MemberAccessExpr"

\* C11: a parenthesised parameter list followed by -> and an expression
\* parses as a FunctionExpr with isArrow = true whose body holds exactly one
\* ReturnStmt of that expression, and not as a GroupExpr: so for
\* var dbl = (a: num) -> a * 2 and for (a) -> a * 2.
C11_ArrowFunctionExpr ==
  LET isDbl(f) ==
        /\ f.kind = "FunctionExpr"
        /\ f.isArrow
        /\ f.body.statements =
             <<[kind |-> "ReturnStmt",
                expr |-> BinaryExpr(Identifier(name("a")), tok("STAR"),
                                    Literal(num("2")))]>>
  IN parsePc = "done" =>
       /\ parser.tokens = ArrowProgram =>
            /\ Len(parser.statements) = 1
            /\ parser.statements[1].kind = "VarDeclaration"
            /\ isDbl(parser.statements[1].declarators[1].value)
       /\ parser.tokens = PlainArrowProgram =>
            /\ Len(parser.statements) = 1
            /\ parser.statements[1].kind = "ExprStmt"
            /\ isDbl(parser.statements[1].expr)

\* the tokens at which the parser synchronises after an error
SyncKinds == {"NEWLINE", "DEDENT", "SEMI_COLON"}

C13_ParsingDeterministic ==
  (parsePc = "done" /\ previous # NoParsedData) => ParsedData(parser) = previous

\* the nodes directly under a node of the AST
children(n) ==
  CASE n.kind = "Body" -> n.statements
    [] n.kind \in {"ExprStmt", "ReturnStmt", "GroupingExpr"} -> <<n.expr>>
    [] n.kind = "VarDeclaration" ->
         [i \in 1..Len(n.declarators) |-> n.declarators[i].value]
    [] n.kind = "IfStmt" -> <<n.condition, n.thenBody, n.elseBody>>
    [] n.kind = "ForStmt" -> <<n.start, n.stop, n.step, n.body>>
    [] n.kind \in {"FunctionDecl", "FunctionExpr"} ->
         [i \in 1..Len(n.params) |-> n.params[i].defaultValue] \o <<n.body>>
    [] n.kind \in {"BinaryExpr", "AssignmentExpr"} -> <<n.left, n.right>>
    [] n.kind \in {"PrefixUnaryExpr", "PostfixUnaryExpr"} -> <<n.operand>>
    [] n.kind = "CallExpr" -> <<n.callee>> \o n.args
    [] n.kind = "MemberAccessExpr" -> <<n.object, n.property>>
    [] n.kind = "ArrayExpr" -> n.elements
    [] n.kind = "ObjectExpr" -> [i \in 1..Len(n.pairs) |-> n.pairs[i][2]]
    [] OTHER -> <<>>

\* the nodes of the given kinds in and under the nodes of a list
RECURSIVE nodesOfKind(_, _)
nodesOfKind(nodes, kinds) ==
  IF nodes = <<>> THEN {}
  ELSE (IF Head(nodes).kind \in kinds THEN {Head(nodes)} ELSE {})
         \cup nodesOfKind(children(Head(nodes)) \o Tail(nodes), kinds)

\* every Body of the AST that parse() returns, the root included
bodiesOf(P) == nodesOfKind(<<ParsedData(P).ast>>, {"Body"})

isFuncDeclaration(d) == d.kind = "FuncDeclaration"
isFunctionDecl(n) == n.kind = "FunctionDecl"

\* the FuncDeclaration entries of the function declarations that are
\* statements of a body, in order
funcDeclarationsFor(statements) ==
  LET decls == SelectSeq(statements, isFunctionDecl)
  IN [i \in 1..Len(decls) |-> FuncDeclaration(decls[i])]

\* C14: when parse() has returned, the FuncDeclaration entries of every Body
\* are exactly those of the function declarations among its own statements,
\* one each and in order: a declaration is hoisted to the body that encloses
\* it, not to its own body, and a FunctionExpr adds no entry.
C14_FuncDeclarationHoisted ==
  parsePc = "done" =>
    \A b \in bodiesOf(parser) :
      SelectSeq(b.declarations, isFuncDeclaration) = funcDeclarationsFor(b.statements)

\* parse() has returned the AST of a function declaration that holds a
\* function declaration of its own and another one inside an `if', followed
\* by an assignment of a function expression
C14_Witness ==
  /\ parsePc = "done"
  /\ parser.tokens = NestedFunctionsProgram
  /\ ~parser.hasError
  /\ Len(parser.statements) = 2
  /\ parser.statements[1].kind = "FunctionDecl"
  /\ parser.statements[1].body.declarations =
       <<[kind |-> "FuncDeclaration", name |-> "g"]>>
  /\ parser.statements[1].body.statements[2].thenBody.declarations =
       <<[kind |-> "FuncDeclaration", name |-> "h"]>>
  /\ parser.statements[2].expr.right.kind = "FunctionExpr"
  /\ parser.blockScopestack[1] = <<[kind |-> "FuncDeclaration", name |-> "f"]>>

\* the names of the HoistedVarDeclaration entries of all bodies of the AST
hoistedNames(P) ==
  UNION { {b.declarations[i].name :
             i \in {j \in 1..Len(b.declarations) :
                      b.declarations[j].kind = "HoistedVarDeclaration"}} :
          b \in bodiesOf(P) }

\* the names declared by the declarations of the given kinds
declaredNames(P, declarationKinds) ==
  UNION { {d.declarators[i].name : i \in 1..Len(d.declarators)} :
          d \in {v \in nodesOfKind(<<ParsedData(P).ast>>, {"VarDeclaration"}) :
                   v.declarationKind \in declarationKinds} }

\* the counters of the for loops
forCounters(P) == {f.i.name : f \in nodesOfKind(<<ParsedData(P).ast>>, {"ForStmt"})}

\* C15: when parse() has returned, every name declared with `var' has a
\* HoistedVarDeclaration entry in the declarations of some Body, and no
\* `let', `const' or sugar declaration has put one there (the only other
\* entries are the counters of for loops).
C15_VarHoisted ==
  parsePc = "done" =>
    /\ declaredNames(parser, {"FunctionScope"}) \subseteq hoistedNames(parser)
    /\ hoistedNames(parser) \subseteq
         declaredNames(parser, {"FunctionScope"}) \cup forCounters(parser)

(***************************************************************************)
(* Properties of the type rules.                                           *)
(***************************************************************************)
\* the rule that was applied is a plain assignment of tb to ta
plainAssignment ==
  /\ typing.pc = "answered"
  /\ \/ typing.rule = "canAssign"
     \/ typing.rule = "isValidAssignment" /\ typing.with = "EQ"

\* C16: for plain assignment t_any accepts every type and every type accepts
\* t_any, under canAssign and under isValidAssignment with EQ; two primitives
\* other than t_any are assignable exactly when they are the same type.
C16_AnyAcceptsAndIsAccepted ==
  plainAssignment =>
    /\ (sameType(typing.ta, t_any) \/ sameType(typing.tb, t_any))
         => typing.result = TRUE
    /\ (/\ typing.ta.kind = "Type" /\ ~sameType(typing.ta, t_any)
        /\ typing.tb.kind = "Type" /\ ~sameType(typing.tb, t_any))
         => typing.result = sameType(typing.ta, typing.tb)

\* the parameters of g are, position by position, assignable to those of f
\* as a plain assignment
paramsPlainlyAssignable(f, g) ==
  \A i \in 1..Len(f.params) :
    isValidAssignment(g.params[i].type, f.params[i].type, "EQ")

\* C17: for a FunctionType f, f.canAssign(g) holds exactly when g is a
\* FunctionType with as many parameters, equal rest flags at every position,
\* parameter types pairwise assignable as a plain assignment and
\* f.returnType.canAssign(g.returnType); so a FunctionType is assignable to
\* itself whatever the declared types of its parameters.
C17_FunctionTypeAssignable ==
  (/\ typing.pc = "answered"
   /\ typing.rule = "canAssign"
   /\ typing.ta.kind = "FunctionType")
    => /\ typing.result =
            (/\ typing.tb.kind = "FunctionType"
             /\ Len(typing.tb.params) = Len(typing.ta.params)
             /\ \A i \in 1..Len(typing.ta.params) :
                  typing.ta.params[i].rest = typing.tb.params[i].rest
             /\ paramsPlainlyAssignable(typing.ta, typing.tb)
             /\ canAssign(typing.ta.returnType, typing.tb.returnType))
       /\ sameType(typing.ta, typing.tb) => typing.result = TRUE

\* the two types are the same type by structure: generic instances of the
\* same parent with pairwise equivalent arguments, any other type by identity
RECURSIVE structurallyEquivalent(_, _)
structurallyEquivalent(a, b) ==
  IF a.kind = "GenericTypeInstance" /\ b.kind = "GenericTypeInstance"
    THEN /\ a.parentId = b.parentId
         /\ Len(a.types) = Len(b.types)
         /\ \A i \in 1..Len(a.types) : structurallyEquivalent(a.types[i], b.types[i])
    ELSE sameType(a, b)

\* C18: two generic instances, also when created separately, are equivalent
\* and assignable to each other exactly when they have the same parent
\* generic and pairwise equivalent type arguments, at every nesting depth.
C18_InstanceIdentityStructural ==
  (/\ typing.pc = "answered"
   /\ typing.ta.kind = "GenericTypeInstance"
   /\ typing.tb.kind = "GenericTypeInstance")
    => /\ typing.rule = "areEquivalent"
            => typing.result = structurallyEquivalent(typing.ta, typing.tb)
       /\ typing.rule = "canAssign"
            => (typing.result /\ canAssign(typing.tb, typing.ta))
                 = structurallyEquivalent(typing.ta, typing.tb)

\* the type f occurs in the type
RECURSIVE occursIn(_, _)
occursIn(f, type) ==
  CASE sameType(type, f) -> TRUE
    [] type.kind = "FunctionType" ->
         \/ \E i \in 1..Len(type.params) : occursIn(f, type.params[i].type)
         \/ occursIn(f, type.returnType)
    [] type.kind = "GenericTypeInstance" ->
         \E i \in 1..Len(type.types) : occursIn(f, type.types[i])
    [] OTHER -> FALSE

\* C19: generic.create(A1..An) on a generic with formals F1..Fn returns an
\* instance with the generic's id as parentId, A1..An as its types, and the
\* generic's properties under the same names in the same order, each formal
\* Fi in a property type replaced by Ai, so that no formal is left in them.
C19_CreateSubstitutesFormals ==
  (/\ typing.pc = "answered"
   /\ typing.rule = "create"
   /\ Len(typing.with.t) = Len(typing.with.generic.typeParams))
    => LET g == typing.with.generic
           t == typing.with.t
           instance == typing.result
       IN  /\ instance.kind = "GenericTypeInstance"
           /\ instance.parentId = g.id
           /\ instance.types = t
           /\ Len(instance.properties) = Len(g.properties)
           /\ \A k \in 1..Len(g.properties) :
                /\ instance.properties[k][1] = g.properties[k][1]
                /\ instance.properties[k][2]
                     = substituteEach(g.properties[k][2], g.typeParams, t, 1)
                /\ \A i \in 1..Len(g.typeParams) :
                     ~occursIn(g.typeParams[i], instance.properties[k][2])

\* C20: binaryOp with + gives num for num + num, str whenever one operand is
\* str and the other is not t_error, and t_error for every other pair.
C20_PlusRule ==
  (/\ typing.pc = "answered"
   /\ typing.rule = "binaryOp"
   /\ typing.with = "PLUS")
    => typing.result =
         (CASE sameType(typing.ta, t_number) /\ sameType(typing.tb, t_number) ->
                 t_number
            [] /\ sameType(typing.ta, t_string) \/ sameType(typing.tb, t_string)
               /\ ~sameType(typing.ta, t_error)
               /\ ~sameType(typing.tb, t_error) -> t_string
            [] OTHER -> t_error)

\* the rule that was applied is binaryOp(ta, op, tb) with op among the
\* operators
binaryOpOf(operators) ==
  /\ typing.pc = "answered"
  /\ typing.rule = "binaryOp"
  /\ typing.with \in operators

\* C21: for - * / // % ** & | ^, binaryOp gives num for num and num and
\* t_error for every other pair of operand types other than t_any; for
\* < <= > >= it gives bool for num and num and t_error for every other such
\* pair.
C21_NumericOperators ==
  (/\ binaryOpOf(ArithmeticOperators \cup ComparisonOperators)
   /\ ~sameType(typing.ta, t_any)
   /\ ~sameType(typing.tb, t_any))
    => typing.result =
         (IF sameType(typing.ta, t_number) /\ sameType(typing.tb, t_number)
            THEN IF typing.with \in ArithmeticOperators THEN t_number ELSE t_bool
            ELSE t_error)

\* the type an operator gives by default: num for the arithmetic and bitwise
\* operators, bool for comparison, equality and the logical operators
defaultResult(op) ==
  IF op \in {"PLUS"} \cup ArithmeticOperators \cup NumericUnaryOperators
    THEN t_number
    ELSE t_bool

\* C22: an operator applied to t_any gives the operator's default type and
\* never t_error: binaryOp(t_any, op, T) and binaryOp(T, op, t_any) for every
\* binary operator and every T other than t_error, and unaryOp(op, t_any) for
\* + - ++ -- and !.
C22_AnyOperandGivesDefault ==
  /\ (/\ binaryOpOf(BinaryOperators)
      /\ sameType(typing.ta, t_any) \/ sameType(typing.tb, t_any)
      /\ ~sameType(typing.ta, t_error)
      /\ ~sameType(typing.tb, t_error))
       => typing.result = defaultResult(typing.with)
  /\ (/\ typing.pc = "answered"
      /\ typing.rule = "unaryOp"
      /\ typing.with \in NumericUnaryOperators \cup {"BANG"}
      /\ sameType(typing.ta, t_any))
       => typing.result = defaultResult(typing.with)

\* C23: isValidAssignment(L, R, PLUS_EQ) holds exactly when L and R are both
\* num or L is str; for -=, *=, /=, %= and **= it holds exactly when L is any
\* or L and R are both num.
C23_CompoundAssignment ==
  (/\ typing.pc = "answered"
   /\ typing.rule = "isValidAssignment"
   /\ typing.with \in CompoundAssignments)
    => typing.result =
         (IF typing.with = "PLUS_EQ"
            THEN \/ sameType(typing.ta, t_number) /\ sameType(typing.tb, t_number)
                 \/ sameType(typing.ta, t_string)
            ELSE \/ sameType(typing.ta, t_any)
                 \/ sameType(typing.ta, t_number) /\ sameType(typing.tb, t_number))

\* myString += 1 was accepted
C23_Witness ==
  /\ typing.pc = "answered"
  /\ typing.rule = "isValidAssignment"
  /\ typing.with = "PLUS_EQ"
  /\ sameType(typing.ta, t_string)
  /\ sameType(typing.tb, t_number)
  /\ typing.result = TRUE

\* myString -= 10 was rejected
C23_WitnessRejected ==
  /\ typing.pc = "answered"
  /\ typing.rule = "isValidAssignment"
  /\ typing.with = "MINUS_EQ"
  /\ sameType(typing.ta, t_string)
  /\ sameType(typing.tb, t_number)
  /\ typing.result = FALSE

\* C24: parse() terminates on every token list that ends in EOF: no loop of
\* the parser goes round again at the same token without end, also when the
\* DEDENT that closes a for or record body is missing.
C24_ParseTerminates == parsePc # "hang"

(***************************************************************************)
(* Properties of the lexer's brackets.                                     *)
(***************************************************************************)
BracketKinds ==
  {"L_PAREN", "R_PAREN", "L_SQ_BRACE", "R_SQ_BRACE", "L_BRACE", "R_BRACE"}

closerOf(open) ==
  CASE open = "(" -> ")"
    [] open = "[" -> "]"
    [] open = "{" -> "}"

\* the open brackets after the first n tokens, innermost last, and whether a
\* closing bracket among them did not match the innermost open one
RECURSIVE nesting(_, _)
nesting(tokens, n) ==
  IF n = 0 THEN [open |-> <<>>, mismatched |-> FALSE]
  ELSE LET before == nesting(tokens, n - 1)
           t == tokens[n]
       IN IF t.type \notin BracketKinds THEN before
          ELSE IF t.raw \in {<<"(">>, <<"[">>, <<"{">>}
            THEN [before EXCEPT !.open = Append(@, t.raw[1])]
          ELSE IF before.open # <<>>
                  /\ t.raw = <<closerOf(before.open[Len(before.open)])>>
            THEN [before EXCEPT !.open = SubSeq(@, 1, Len(@) - 1)]
          ELSE [before EXCEPT !.mismatched = TRUE]

\* C25: the lexer's bracket stack follows the nesting of the brackets it has
\* scanned: one deeper for every ( [ {, one less for every ) ] } that matches
\* the innermost open bracket, so it is empty after balanced brackets; a
\* closing bracket that does not match, or comes at depth 0, sets hasError.
C25_BracketDepthTracksNesting ==
  LET scanned == nesting(lexer.tokens, Len(lexer.tokens))
  IN /\ ~scanned.mismatched => Len(lexer.brackets) = Len(scanned.open)
     /\ scanned.mismatched => lexer.hasError

(***************************************************************************)
(* More properties of the type rules.                                      *)
(***************************************************************************)
\* C26: t_error goes through the operator rules unchanged: binaryOp gives
\* t_error whenever one of its operands is t_error, for every operator, and
\* unaryOp gives t_error for the operand t_error.
C26_ErrorPropagates ==
  typing.pc = "answered" =>
    /\ (/\ typing.rule = "binaryOp"
        /\ sameType(typing.ta, t_error) \/ sameType(typing.tb, t_error))
         => typing.result = t_error
    /\ (typing.rule = "unaryOp" /\ sameType(typing.ta, t_error))
         => typing.result = t_error

\* `and' was applied to t_error and a type that is not t_error
C26_Witness ==
  /\ typing.pc = "answered"
  /\ typing.rule = "binaryOp"
  /\ typing.with = "AND"
  /\ sameType(typing.ta, t_error)
  /\ sameType(typing.tb, t_bool)
  /\ typing.result = t_error

(***************************************************************************)
(* The lexer's braces.                                                     *)
(***************************************************************************)
\* C27: the token the lexer emits for } has a kind of its own, different
\* from the kind of the token it emits for {.
C27_CloseBraceKind ==
  \A i, j \in 1..Len(lexer.tokens) :
    (lexer.tokens[i].raw = <<"{">> /\ lexer.tokens[j].raw = <<"}">>)
      => lexer.tokens[i].type # lexer.tokens[j].type

(***************************************************************************)
(* Properties of the parser's scopes.                                      *)
(***************************************************************************)
forStmtsOf(P) == nodesOfKind(<<ParsedData(P).ast>>, {"ForStmt"})

\* the declaration is one a statement of the body, or the for loop the body
\* belongs to, has put there
declaredBy(d, b, P) ==
  \/ /\ d.kind = "FuncDeclaration"
     /\ \E k \in 1..Len(b.statements) :
          /\ b.statements[k].kind = "FunctionDecl"
          /\ FuncDeclaration(b.statements[k]) = d
  \/ /\ d.kind = "HoistedVarDeclaration"
     /\ \E f \in forStmtsOf(P) : f.body = b /\ f.i.name = d.name

\* C28: the block-scope stack holds the root body and nothing else before
\* the first statement and after every top-level statement (ifStmt, forStmt
\* and parseFunctionBody pop what they push), and a declaration is always
\* put in the Body the statement that makes it is appended to.
C28_BlockScopesBalanced ==
  parsePc \in {"parse", "done"} =>
    /\ Len(parser.blockScopestack) = 1
    /\ \A b \in bodiesOf(parser) :
         \A k \in 1..Len(b.declarations) : declaredBy(b.declarations[k], b, parser)

\* parse() has returned the AST of a function whose body is a for loop around
\* an if with an else branch, followed by another statement
C28_Witness ==
  /\ parsePc = "done"
  /\ parser.tokens = ScopesProgram
  /\ ~parser.hasError
  /\ Len(parser.statements) = 2
  /\ parser.statements[1].kind = "FunctionDecl"
  /\ parser.statements[1].body.statements[1].kind = "ForStmt"
  /\ parser.statements[1].body.statements[1].body.statements[1].kind = "IfStmt"
  /\ parser.statements[1].body.statements[1].body.statements[1].elseBody.kind = "Body"
  /\ Len(parser.blockScopestack) = 1

(***************************************************************************)
(* The two assignability predicates.                                       *)
(***************************************************************************)
primitiveOrInstance(t) == t.kind \in {"Type", "GenericTypeInstance"}

\* C29: for primitives and generic instances A and B, A.canAssign(B) and
\* isValidAssignment(A, B, EQ) give the same answer.
C29_PredicatesAgree ==
  (/\ plainAssignment
   /\ primitiveOrInstance(typing.ta)
   /\ primitiveOrInstance(typing.tb))
    => typing.result =
         (IF typing.rule = "canAssign"
            THEN isValidAssignment(typing.ta, typing.tb, "EQ")
            ELSE canAssign(typing.ta, typing.tb))

(***************************************************************************)
(* The declarations of a for loop.                                         *)
(***************************************************************************)
\* how many entries of the list are hoisted declarations of the name
hoistedCount(declarations, n) ==
  Cardinality({k \in 1..Len(declarations) :
                 /\ declarations[k].kind = "HoistedVarDeclaration"
                 /\ declarations[k].name = n})

\* C30: after a for statement is parsed the declarations of its body hold
\* exactly one hoisted declaration of the loop counter, of type num, and no
\* Body has two declarations of the same name.
C30_OneCounterDeclaration ==
  parsePc \in {"parse", "done"} =>
    /\ \A f \in forStmtsOf(parser) :
         /\ hoistedCount(f.body.declarations, f.i.name) = 1
         /\ HoistedVarDeclaration(f.i.name, t_number) \in
              {f.body.declarations[k] : k \in 1..Len(f.body.declarations)}
    /\ \A b \in bodiesOf(parser) :
         \A j, k \in 1..Len(b.declarations) :
           b.declarations[j].name = b.declarations[k].name => j = k

====
